---- MODULE Spec2Model ----
(***************************************************************************)
(* Verification model of the bun-hono video renderer:                      *)
(*   - the Timeline Compiler  (src/renderer/core/CanonicalTimeline.ts),    *)
(*   - the Graph Accumulator  (FilterGraphBuilder, two revisions),         *)
(*   - the source lowering handlers and the orchestrator's graph pass.     *)
(* Text (ids, stream labels, filter fragments) is modelled as a sequence   *)
(* of string tokens, concatenation as \o, so that two texts are equal in   *)
(* the model exactly when the program builds equal strings.                *)
(***************************************************************************)
EXTENDS Integers, Sequences, FiniteSets, TLC

VARIABLES
    doc,           \* the validated layout document: doc.blocks holds the blocks the
                   \* compiler's loop has read, the rest is drawn when the loop gets there
    pc,            \* position of the run: "compile", "sorted", "fgb", ...
    blockCounter,  \* CanonicalTimeline.ts: let blockCounter
    currentTime,   \* CanonicalTimeline.ts: let currentTime
    clips,         \* CanonicalTimeline.ts: const clips: CTClip[]
    blockLog,      \* per processed block: blockStartTime, calculatedBlockDuration, clips pushed
    timeline,      \* the returned CanonicalTimeline (<<>> until the function returns)
    revision,      \* which FilterGraphBuilder revision `builder` is an instance of
    builder,       \* the fields of the FilterGraphBuilder instance
    inputLog,      \* the addInput calls made on it: argument and returned index
    labelLog,      \* the getUniqueStreamLabel calls: prefix and returned label
    filterLog,     \* the fragments handed to addFilter / addFilterSegment, in call order
    finalLog,      \* the setFinalVideoOutput / setFinalAudioOutput calls
    built,         \* what build() returned (<<>> until it is called)
    currentTimelineVideoOutput,  \* VideoRenderer.render: let currentTimelineVideoOutput
    outputFilename,              \* VideoRenderer.render: const outputFilename
    result,        \* what render() returned before the engine is started (<<>> until then)
    run,           \* 1 while the document is rendered the first time, 2 the second time
    firstRun,      \* what the first render of the document produced (<<>> until it ended)
    fxClip,        \* the clip whose effects are being applied (<<>> when none is)
    fxStreams,     \* VideoRenderer.render: currentVideoOutput / currentAudioOutput of that clip
    fxLog,         \* the apply() calls made on effect handlers: arguments, result, builder before and after
    accumulatedBlockTime, \* part_003: let accumulatedBlockTime
    ffmpeg,        \* one engine invocation: the child process, the handlers' variables, the promise
    suspended      \* the locals of a render() call that waits at an await while another call runs

ctVars == <<doc, pc, blockCounter, currentTime, clips, blockLog, timeline>>
ctVarsButPc == <<doc, blockCounter, currentTime, clips, blockLog, timeline>>
fgbVars == <<revision, builder, inputLog, labelLog, filterLog, finalLog, built>>
renderVars == <<currentTimelineVideoOutput, outputFilename, result, run, firstRun>>
fxVars == <<fxClip, fxStreams, fxLog>>
extVars == <<fxVars, accumulatedBlockTime, ffmpeg, suspended>>

(***************************************************************************)
(* Bounds of the model                                                     *)
(***************************************************************************)
MaxBlocks == 2      \* longest doc.blocks
MaxVisuals == 2     \* longest block.visuals
MaxSources == 3     \* most sources (visuals and audio) in one document
MaxCalls == 4       \* most calls made on one FilterGraphBuilder before build()
MaxEffects == 2     \* longest clip.effects
MaxTransitions == 2 \* most transitions applied on one FilterGraphBuilder
MaxBlocksV3 == 991  \* length of doc.blocks in the long documents
MaxChunks == 3      \* most stderr 'data' events of one engine invocation

(***************************************************************************)
(* Optional values (undefined / present)                                   *)
(***************************************************************************)
None == <<>>
Some(v) == <<v>>
IsSome(o) == o # <<>>
Val(o) == o[1]

\* JavaScript Infinity, larger than every duration of the model
Infinity == 1000000

Min(a, b) == IF a <= b THEN a ELSE b
Max(a, b) == IF a >= b THEN a ELSE b

(***************************************************************************)
(* Number formatting inside template strings: `${n}`                       *)
(***************************************************************************)
Digit(d) == <<"0", "1", "2", "3", "4", "5", "6", "7", "8", "9">>[d + 1]

RECURSIVE Dec(_)
Dec(n) == IF n < 10 THEN <<Digit(n)>> ELSE Dec(n \div 10) \o <<Digit(n % 10)>>

(***************************************************************************)
(* String.prototype.includes over the file names of the model              *)
(***************************************************************************)
includes(src, needle) ==
    <<src, needle>> \in { <<"long.mp4", "long">>,
                          <<"short.mp4", "short">>,
                          <<"long_audio.mp3", "long">>,
                          <<"long_audio.mp3", "long_audio">>,
                          <<"short_audio.mp3", "short">>,
                          <<"short_audio.mp3", "short_audio">> }

(***************************************************************************)
(* probeSource (placeholder probe of CanonicalTimeline.ts)                 *)
(***************************************************************************)
probeSource(source, blockDuration) ==
    CASE source.kind = "video" ->
            [duration |-> IF includes(source.src, "long") THEN 20
                          ELSE IF includes(source.src, "short") THEN 5 ELSE 10,
             width |-> Some(IF includes(source.src, "hd") THEN 1920 ELSE 1280),
             height |-> Some(IF includes(source.src, "hd") THEN 1080 ELSE 720)]
      [] source.kind = "audio" ->
            [duration |-> IF includes(source.src, "long_audio") THEN 60
                          ELSE IF includes(source.src, "short_audio") THEN 15 ELSE 30,
             width |-> None,
             height |-> None]
      [] source.kind = "image" ->
            [duration |-> IF IsSome(blockDuration) THEN Val(blockDuration) ELSE Infinity,
             width |-> Some(IF includes(source.src, "large_image") THEN 1920 ELSE 800),
             height |-> Some(IF includes(source.src, "large_image") THEN 1080 ELSE 600)]
      [] source.kind = "colour" ->
            [duration |-> IF IsSome(blockDuration) THEN Val(blockDuration) ELSE Infinity,
             width |-> None,
             height |-> None]
      [] OTHER -> [duration |-> 0, width |-> None, height |-> None]

(***************************************************************************)
(* Documents                                                               *)
(***************************************************************************)
VisualPool == { [kind |-> "video", src |-> "clip.mp4"],
                [kind |-> "video", src |-> "long.mp4"],
                [kind |-> "image", src |-> "bg.png"] }
AudioPool == { [kind |-> "audio", src |-> "music.mp3"] }
BlockAts == {None, Some(2)}
BlockDurations == {None, Some(0), Some(3), Some(5)}
BlockIds == {None}

SeqsUpTo(S, n) == UNION { [1..k -> S] : k \in 0..n }

Blocks(ids, ats, durs, visuals, audios) ==
    [id : ids, at : ats, duration : durs,
     visuals : SeqsUpTo(visuals, MaxVisuals),
     audio : {None} \cup {Some(a) : a \in audios}]

\* block.effects, a field a block may do without
effectsOf(block) == IF "effects" \in DOMAIN block THEN block.effects ELSE <<>>

\* the blocks of a set, each with every one of the given effect lists
withEffects(blocks, effectLists) ==
    { [f \in DOMAIN block \cup {"effects"} |->
          IF f = "effects" THEN effects ELSE block[f]] :
      block \in blocks, effects \in effectLists }

\* doc.canvas of the documents that carry no canvas background
PlainCanvas == [w |-> 1280, h |-> 720, fps |-> 30, background |-> None]

sourcesOf(block) == Len(block.visuals) + (IF IsSome(block.audio) THEN 1 ELSE 0)

\* sources of the blocks read so far
RECURSIVE sourcesIn(_)
sourcesIn(blocks) ==
    IF blocks = <<>> THEN 0 ELSE sourcesOf(Head(blocks)) + sourcesIn(Tail(blocks))

BlocksCT == Blocks(BlockIds, BlockAts, BlockDurations, VisualPool, AudioPool)

(***************************************************************************)
(* convertToCanonicalTimeline: one loop iteration per block                *)
(***************************************************************************)
\* const blockId = block.id || `block_${blockCounter}`
blockIdOf(block, n) ==
    IF IsSome(block.id) /\ Val(block.id) # <<>> THEN Val(block.id)
    ELSE <<"block", "_">> \o Dec(n)

\* the longest finite probed duration among the block's video visuals (0 if none)
RECURSIVE longestVideo(_, _, _)
longestVideo(visuals, i, videoDuration) ==
    IF i > Len(visuals) THEN videoDuration
    ELSE LET v == visuals[i]
             p == IF v.kind = "video" THEN probeSource(v, None).duration ELSE 0
         IN longestVideo(visuals, i + 1,
                IF v.kind = "video" /\ p # Infinity /\ p > videoDuration
                THEN p ELSE videoDuration)

\* variant: the longest video is consulted before the audio source
calculatedBlockDuration_videoFirst(block) ==
    IF IsSome(block.duration) THEN Val(block.duration)
    ELSE LET videoDuration == longestVideo(block.visuals, 1, 0)
         IN IF videoDuration > 0 THEN videoDuration
            ELSE IF IsSome(block.audio) THEN probeSource(Val(block.audio), None).duration
            ELSE IF Len(block.visuals) > 0 THEN 5 ELSE 1

calculatedBlockDuration(block) ==
    IF IsSome(block.duration) THEN Val(block.duration)
    ELSE LET audioDuration == IF IsSome(block.audio)
                              THEN probeSource(Val(block.audio), None).duration ELSE 0
         IN IF audioDuration > 0 /\ audioDuration # Infinity THEN audioDuration
            ELSE IF Len(block.visuals) > 0
                 THEN LET videoDuration == longestVideo(block.visuals, 1, 0)
                      IN IF videoDuration > 0 THEN videoDuration ELSE 5
                 ELSE 1

\* variant: the block starts at the cursor whether or not it carries `at`
blockStartTimeOf_cursorOnly(block, cur) == cur

\* const blockStartTime = block.at ?? currentTime
blockStartTimeOf(block, cur) == IF IsSome(block.at) THEN Val(block.at) ELSE cur

\* variant: every block advances the cursor
nextCurrentTime_always(block, cur, blockEndTime) == blockEndTime

\* currentTime = block.at === undefined ? blockEndTime : currentTime
nextCurrentTime(block, cur, blockEndTime) ==
    IF IsSome(block.at) THEN cur ELSE blockEndTime

\* variant: media keeps its probed length
trimToBlock_untrimmed(probeDuration, blockDuration) ==
    IF probeDuration = Infinity THEN blockDuration ELSE probeDuration

\* Math.min(probe.duration === Infinity ? calculatedBlockDuration : probe.duration,
\*          calculatedBlockDuration)
trimToBlock(probeDuration, blockDuration) ==
    Min(IF probeDuration = Infinity THEN blockDuration ELSE probeDuration, blockDuration)

visualClip(block, blockId, blockStartTime, blockDuration, index) ==
    LET visualSource == block.visuals[index + 1]
        visualProbe == probeSource(visualSource, Some(blockDuration))
        clipDuration == IF visualSource.kind \in {"image", "colour"}
                        THEN blockDuration
                        ELSE trimToBlock(visualProbe.duration, blockDuration)
    IN [id |-> blockId \o <<"_visual_">> \o Dec(index),
        kind |-> visualSource.kind,
        src |-> visualSource.src,
        track |-> index + 1,
        start |-> blockStartTime,
        end |-> blockStartTime + clipDuration,
        duration |-> clipDuration,
        layerId |-> blockId,
        props |-> [x |-> 0,
                   y |-> 0,
                   w |-> IF IsSome(visualProbe.width)
                         THEN Val(visualProbe.width) ELSE doc.canvas.w,
                   h |-> IF IsSome(visualProbe.height)
                         THEN Val(visualProbe.height) ELSE doc.canvas.h,
                   resize |-> "stretch",
                   opacity |-> 100],
        effects |-> effectsOf(block)]

audioClip(block, blockId, blockStartTime, blockDuration) ==
    LET audioProbe == probeSource(Val(block.audio), Some(blockDuration))
        audioClipDuration == trimToBlock(audioProbe.duration, blockDuration)
    IN [id |-> blockId \o <<"_audio">>,
        kind |-> Val(block.audio).kind,
        src |-> Val(block.audio).src,
        track |-> 0,
        start |-> blockStartTime,
        end |-> blockStartTime + audioClipDuration,
        duration |-> audioClipDuration,
        layerId |-> blockId,
        props |-> [opacity |-> 100],
        effects |-> SelectSeq(effectsOf(block), LAMBDA e : e.kind = "fade")]

\* the orders in which the async callbacks of Promise.all may reach clips.push
Perms(n) == { p \in [1..n -> 1..n] : \A i, j \in 1..n : p[i] = p[j] => i = j }

\* the body of the loop for one block (lines 97-201)
CompileOne(block) ==
    LET n == blockCounter + 1
        blockId == blockIdOf(block, n)
        blockStartTime == blockStartTimeOf(block, currentTime)
        blockDuration == calculatedBlockDuration(block)
        blockEndTime == blockStartTime + blockDuration
    IN \E order \in Perms(Len(block.visuals)) :
         LET pushedVisuals ==
                 [k \in 1..Len(block.visuals) |->
                     visualClip(block, blockId, blockStartTime, blockDuration, order[k] - 1)]
             pushed == pushedVisuals \o
                       (IF IsSome(block.audio)
                        THEN <<audioClip(block, blockId, blockStartTime, blockDuration)>>
                        ELSE <<>>)
         IN /\ blockCounter' = n
            /\ currentTime' = nextCurrentTime(block, currentTime, blockEndTime)
            /\ clips' = clips \o pushed
            /\ blockLog' = Append(blockLog,
                                  [start |-> blockStartTime,
                                   duration |-> blockDuration,
                                   cursor |-> currentTime,
                                   clips |-> pushed])

\* the loop reads the next block: one the document is already known to hold,
\* or, past those, any block the document may go on with
CompileBlock(blockSet) ==
    /\ pc = "compile"
    /\ IF blockCounter < Len(doc.blocks)
       THEN /\ CompileOne(doc.blocks[blockCounter + 1])
            /\ doc' = doc
       ELSE /\ run = 1
            /\ blockCounter < MaxBlocks
            /\ \E block \in blockSet :
                 /\ sourcesIn(doc.blocks) + sourcesOf(block) <= MaxSources
                 /\ CompileOne(block)
                 /\ doc' = [doc EXCEPT !.blocks = Append(@, block)]
    /\ UNCHANGED <<pc, timeline>>
    /\ UNCHANGED <<fgbVars, renderVars>>
    /\ UNCHANGED extVars

(***************************************************************************)
(* Array.prototype.sort (stable) with the compiler's comparator            *)
(***************************************************************************)
\* variant: a comparator that looks at the track only
compareClips_trackOnly(a, b) == a.track - b.track

compareClips(a, b) ==
    IF a.start # b.start THEN a.start - b.start ELSE a.track - b.track

\* variant: c goes before the elements it compares equal to
insertSorted_beforeEquals(sorted, c) ==
    LET before == { i \in 1..Len(sorted) : compareClips(sorted[i], c) < 0 }
        k == IF before = {} THEN 0 ELSE CHOOSE i \in before : \A j \in before : j <= i
    IN SubSeq(sorted, 1, k) \o <<c>> \o SubSeq(sorted, k + 1, Len(sorted))

\* c goes behind every element that does not compare greater than it
insertSorted(sorted, c) ==
    LET before == { i \in 1..Len(sorted) : compareClips(sorted[i], c) <= 0 }
        k == IF before = {} THEN 0 ELSE CHOOSE i \in before : \A j \in before : j <= i
    IN SubSeq(sorted, 1, k) \o <<c>> \o SubSeq(sorted, k + 1, Len(sorted))

\* variant: the clips stay in the order in which they were pushed
sortClips_asPushed(sorted, rest) == sorted \o rest

RECURSIVE sortClips(_, _)
sortClips(sorted, rest) ==
    IF rest = <<>> THEN sorted
    ELSE sortClips(insertSorted(sorted, Head(rest)), Tail(rest))

\* variant: the end of the clip pushed last
maxEnd_lastPushed(cs, acc) == IF cs = <<>> THEN acc ELSE cs[Len(cs)].end

RECURSIVE maxEnd(_, _)
maxEnd(cs, acc) ==
    IF cs = <<>> THEN acc ELSE maxEnd(Tail(cs), Max(acc, Head(cs).end))

Finish ==
    /\ pc = "compile"
    /\ blockCounter >= 1
    /\ blockCounter = Len(doc.blocks)
    /\ LET timelineDuration == maxEnd(clips, 0)
           sorted == sortClips(<<>>, clips)
       IN /\ clips' = sorted
          /\ timeline' = Some([clips |-> sorted, duration |-> timelineDuration])
    /\ pc' = "returned"
    /\ UNCHANGED <<doc, blockCounter, currentTime, blockLog>>
    /\ UNCHANGED <<fgbVars, renderVars>>
    /\ UNCHANGED extVars


(***************************************************************************)
(* Text helpers of the FilterGraphBuilder revisions                        *)
(***************************************************************************)
\* Array.prototype.join
RECURSIVE join(_, _)
join(parts, sep) ==
    IF parts = <<>> THEN <<>>
    ELSE IF Len(parts) = 1 THEN parts[1]
    ELSE parts[1] \o <<sep>> \o join(Tail(parts), sep)

\* Map.prototype.get on a map kept as a function
mapHas(m, k) == k \in DOMAIN m
mapSet(m, k, v) == [x \in (DOMAIN m) \cup {k} |-> IF x = k THEN v ELSE m[x]]

(***************************************************************************)
(* FilterGraphBuilder, revision with input map (unnamed/part_004)          *)
(***************************************************************************)
P4_new ==
    [inputs |-> <<>>, filters |-> <<>>, streamLabelCounter |-> <<>>, inputMap |-> <<>>]

P4_addInput(b, filePath) ==
    IF mapHas(b.inputMap, filePath)
    THEN [b |-> b, ret |-> b.inputMap[filePath]]
    ELSE LET inputIndex == Len(Append(b.inputs, filePath)) - 1
         IN [b |-> [b EXCEPT !.inputs = Append(@, filePath),
                             !.inputMap = mapSet(@, filePath, inputIndex)],
             ret |-> inputIndex]

P4_getInputIndex(b, filePath) ==
    IF mapHas(b.inputMap, filePath) THEN Some(b.inputMap[filePath]) ELSE None

P4_getInputCount(b) == Len(b.inputs)

startsWith(text, ch) == text # <<>> /\ text[1] = ch
endsWith(text, ch) == text # <<>> /\ text[Len(text)] = ch

P4_getUniqueStreamLabel(b, prefix) ==
    LET currentCount == IF mapHas(b.streamLabelCounter, prefix)
                        THEN b.streamLabelCounter[prefix] ELSE 0
        b2 == [b EXCEPT !.streamLabelCounter = mapSet(@, prefix, currentCount + 1)]
    IN IF currentCount = 0 /\ ~startsWith(prefix, "[") /\ ~endsWith(prefix, "]")
       THEN [b |-> b2, ret |-> <<"[">> \o prefix \o <<"]">>]
       ELSE [b |-> b2, ret |-> <<"[">> \o prefix \o Dec(currentCount) \o <<"]">>]

P4_addFilter(b, filterSpec) ==
    [b |-> [b EXCEPT !.filters = Append(@, filterSpec)], ret |-> None]

P4_build(b) ==
    IF Len(b.filters) = 0 THEN <<>> ELSE join(b.filters, ";\n")

(***************************************************************************)
(* FilterGraphBuilder, revision with final outputs (unnamed/part_005)      *)
(***************************************************************************)
Categories == { <<"v">>, <<"a">>, <<"s">>, <<"o", "u", "t">> }

P5_new ==
    [inputs |-> <<>>,
     complexFilterParts |-> <<>>,
     streamCounter |-> [c \in Categories |-> 0],
     finalVideoOutput |-> None,
     finalAudioOutput |-> None,
     currentClipStreamLabels |-> <<>>]

P5_addInput(b, filePath, clipId) ==
    LET inputIndex == Len(b.inputs)
    IN [b |-> [b EXCEPT !.inputs = Append(@, [filePath |-> filePath,
                                               inputIndex |-> inputIndex,
                                               clipId |-> clipId])],
        ret |-> inputIndex]

P5_getInputFilePaths(b) ==
    [i \in 1..Len(b.inputs) |-> <<"-i \"", b.inputs[i].filePath, "\"">>]

P5_getUniqueStreamLabel(b, prefix) ==
    LET n == b.streamCounter[prefix] + 1
    IN [b |-> [b EXCEPT !.streamCounter[prefix] = n],
        ret |-> <<"[">> \o prefix \o Dec(n) \o <<"]">>]

\* variant: the newest fragment replaces the list
P5_addFilterSegment_replace(b, filterString) ==
    [b |-> [b EXCEPT !.complexFilterParts = <<filterString>>], ret |-> None]

P5_addFilterSegment(b, filterString) ==
    [b |-> [b EXCEPT !.complexFilterParts = Append(@, filterString)], ret |-> None]

\* variant: a final that is already set is kept
P5_setFinalVideoOutput_keepFirst(b, streamLabel) ==
    [b |-> IF IsSome(b.finalVideoOutput) THEN b
           ELSE [b EXCEPT !.finalVideoOutput = Some(streamLabel)],
     ret |-> None]

P5_setFinalVideoOutput(b, streamLabel) ==
    [b |-> [b EXCEPT !.finalVideoOutput = Some(streamLabel)], ret |-> None]

P5_setFinalAudioOutput(b, streamLabel) ==
    [b |-> [b EXCEPT !.finalAudioOutput = Some(streamLabel)], ret |-> None]

\* a label is truthy unless it is the empty string
truthy(o) == IsSome(o) /\ Val(o) # <<>>

P5_build(b) ==
    LET videoMap == IF truthy(b.finalVideoOutput)
                    THEN << <<"-map \"">> \o Val(b.finalVideoOutput) \o <<"\"">> >>
                    ELSE <<>>
        audioMap == IF truthy(b.finalAudioOutput)
                    THEN << <<"-map \"">> \o Val(b.finalAudioOutput) \o <<"\"">> >>
                    ELSE <<>>
        complexFilter == IF Len(b.complexFilterParts) > 0
                         THEN <<"-filter_complex \"">>
                              \o join(b.complexFilterParts, "; ") \o <<"\"">>
                         ELSE <<>>
    IN [inputs |-> P5_getInputFilePaths(b),
        complexFilter |-> complexFilter,
        maps |-> videoMap \o audioMap]

(***************************************************************************)
(* Calls made on one FilterGraphBuilder instance                           *)
(***************************************************************************)
FilePaths == {"a.mp4", "b.png"}
ClipIds == {<<"c", "1">>}
Prefixes == { <<"v">>, <<"v", "1">>, <<"a">>, <<"[", "s", "]">> }
FilterSpecs == { <<"scale=1280:720">>, <<"anull">> }
StreamLabels == { <<"[", "v", "1", "]">>, <<"[", "a", "1", "]">> }

callCount == Len(inputLog) + Len(labelLog) + Len(filterLog) + Len(finalLog)

NoBuilder ==
    /\ revision = "none"
    /\ builder = <<>>
    /\ inputLog = <<>>
    /\ labelLog = <<>>
    /\ filterLog = <<>>
    /\ finalLog = <<>>
    /\ built = None

NoRender ==
    /\ currentTimelineVideoOutput = None
    /\ outputFilename = None
    /\ result = None
    /\ run = 1
    /\ firstRun = None

NoFx ==
    /\ fxClip = None
    /\ fxStreams = None
    /\ fxLog = <<>>

NoExt ==
    /\ NoFx
    /\ accumulatedBlockTime = 0
    /\ ffmpeg = None
    /\ suspended = None

mayCall(rev) == pc = "calls" /\ revision = rev /\ callCount < MaxCalls

AddInput4 ==
    /\ mayCall("part_004")
    /\ \E filePath \in FilePaths :
         LET r == P4_addInput(builder, filePath)
         IN /\ builder' = r.b
            /\ inputLog' = Append(inputLog, [filePath |-> filePath, ret |-> r.ret])
    /\ UNCHANGED <<revision, labelLog, filterLog, finalLog, built, pc>>
    /\ UNCHANGED <<doc, blockCounter, currentTime, clips, blockLog, timeline>>
    /\ UNCHANGED renderVars
    /\ UNCHANGED extVars

GetUniqueStreamLabel4 ==
    /\ mayCall("part_004")
    /\ \E prefix \in Prefixes :
         LET r == P4_getUniqueStreamLabel(builder, prefix)
         IN /\ builder' = r.b
            /\ labelLog' = Append(labelLog, [prefix |-> prefix, ret |-> r.ret])
    /\ UNCHANGED <<revision, inputLog, filterLog, finalLog, built, pc>>
    /\ UNCHANGED <<doc, blockCounter, currentTime, clips, blockLog, timeline>>
    /\ UNCHANGED renderVars
    /\ UNCHANGED extVars

AddFilter4 ==
    /\ mayCall("part_004")
    /\ \E filterSpec \in FilterSpecs :
         /\ builder' = P4_addFilter(builder, filterSpec).b
         /\ filterLog' = Append(filterLog, filterSpec)
    /\ UNCHANGED <<revision, inputLog, labelLog, finalLog, built, pc>>
    /\ UNCHANGED <<doc, blockCounter, currentTime, clips, blockLog, timeline>>
    /\ UNCHANGED renderVars
    /\ UNCHANGED extVars

Build4 ==
    /\ pc = "calls"
    /\ revision = "part_004"
    /\ built' = Some([complexFilter |-> P4_build(builder)])
    /\ pc' = "built"
    /\ UNCHANGED <<revision, builder, inputLog, labelLog, filterLog, finalLog>>
    /\ UNCHANGED <<doc, blockCounter, currentTime, clips, blockLog, timeline>>
    /\ UNCHANGED renderVars
    /\ UNCHANGED extVars

AddInput5 ==
    /\ mayCall("part_005")
    /\ \E filePath \in FilePaths, clipId \in ClipIds :
         LET r == P5_addInput(builder, filePath, clipId)
         IN /\ builder' = r.b
            /\ inputLog' = Append(inputLog, [filePath |-> filePath, ret |-> r.ret])
    /\ UNCHANGED <<revision, labelLog, filterLog, finalLog, built, pc>>
    /\ UNCHANGED <<doc, blockCounter, currentTime, clips, blockLog, timeline>>
    /\ UNCHANGED renderVars
    /\ UNCHANGED extVars

GetUniqueStreamLabel5 ==
    /\ mayCall("part_005")
    /\ \E prefix \in Categories :
         LET r == P5_getUniqueStreamLabel(builder, prefix)
         IN /\ builder' = r.b
            /\ labelLog' = Append(labelLog, [prefix |-> prefix, ret |-> r.ret])
    /\ UNCHANGED <<revision, inputLog, filterLog, finalLog, built, pc>>
    /\ UNCHANGED <<doc, blockCounter, currentTime, clips, blockLog, timeline>>
    /\ UNCHANGED renderVars
    /\ UNCHANGED extVars

AddFilterSegment5 ==
    /\ mayCall("part_005")
    /\ \E filterString \in FilterSpecs :
         /\ builder' = P5_addFilterSegment(builder, filterString).b
         /\ filterLog' = Append(filterLog, filterString)
    /\ UNCHANGED <<revision, inputLog, labelLog, finalLog, built, pc>>
    /\ UNCHANGED <<doc, blockCounter, currentTime, clips, blockLog, timeline>>
    /\ UNCHANGED renderVars
    /\ UNCHANGED extVars

SetFinalVideoOutput5 ==
    /\ mayCall("part_005")
    /\ \E streamLabel \in StreamLabels :
         /\ builder' = P5_setFinalVideoOutput(builder, streamLabel).b
         /\ finalLog' = Append(finalLog, [type |-> "video", label |-> streamLabel])
    /\ UNCHANGED <<revision, inputLog, labelLog, filterLog, built, pc>>
    /\ UNCHANGED <<doc, blockCounter, currentTime, clips, blockLog, timeline>>
    /\ UNCHANGED renderVars
    /\ UNCHANGED extVars

SetFinalAudioOutput5 ==
    /\ mayCall("part_005")
    /\ \E streamLabel \in StreamLabels :
         /\ builder' = P5_setFinalAudioOutput(builder, streamLabel).b
         /\ finalLog' = Append(finalLog, [type |-> "audio", label |-> streamLabel])
    /\ UNCHANGED <<revision, inputLog, labelLog, filterLog, built, pc>>
    /\ UNCHANGED <<doc, blockCounter, currentTime, clips, blockLog, timeline>>
    /\ UNCHANGED renderVars
    /\ UNCHANGED extVars

Build5 ==
    /\ pc = "calls"
    /\ revision = "part_005"
    /\ built' = Some(P5_build(builder))
    /\ pc' = "built"
    /\ UNCHANGED <<revision, builder, inputLog, labelLog, filterLog, finalLog>>
    /\ UNCHANGED <<doc, blockCounter, currentTime, clips, blockLog, timeline>>
    /\ UNCHANGED renderVars
    /\ UNCHANGED extVars

InitFGB ==
    /\ pc = "calls"
    /\ \/ revision = "part_004" /\ builder = P4_new
       \/ revision = "part_005" /\ builder = P5_new
    /\ inputLog = <<>>
    /\ labelLog = <<>>
    /\ filterLog = <<>>
    /\ finalLog = <<>>
    /\ built = None
    /\ doc = [blocks |-> <<>>, canvas |-> PlainCanvas]
    /\ blockCounter = 0
    /\ currentTime = 0
    /\ clips = <<>>
    /\ blockLog = <<>>
    /\ timeline = None
    /\ NoRender
    /\ NoExt

NextFGB ==
    \/ AddInput4
    \/ GetUniqueStreamLabel4
    \/ AddFilter4
    \/ Build4
    \/ AddInput5
    \/ GetUniqueStreamLabel5
    \/ AddFilterSegment5
    \/ SetFinalVideoOutput5
    \/ SetFinalAudioOutput5
    \/ Build5

(***************************************************************************)
(* Builder methods the lowering handlers and the orchestrator call         *)
(***************************************************************************)
\* FilterGraphBuilder.ts: getInputCount, the number of addInput calls so far
P5_getInputCount(b) == Len(b.inputs)

\* FilterGraphBuilder.ts: addFilter pushes onto complexFilterParts
P5_addFilter(b, filterString) ==
    [b |-> [b EXCEPT !.complexFilterParts = Append(@, filterString)], ret |-> None]

P5_updateClipStreamOutput(b, clipId, type, streamLabel) ==
    LET current == IF mapHas(b.currentClipStreamLabels, clipId)
                   THEN b.currentClipStreamLabels[clipId]
                   ELSE [video |-> None, audio |-> None]
    IN [b |-> [b EXCEPT !.currentClipStreamLabels =
                            mapSet(@, clipId, [current EXCEPT ![type] = Some(streamLabel)])],
        ret |-> None]

P5_getClipStreamOutput(b, clipId, type) ==
    IF mapHas(b.currentClipStreamLabels, clipId)
    THEN b.currentClipStreamLabels[clipId][type]
    ELSE None

\* variant: the overlay reads a stream that no source lowering produced
P5_overlayVideo_unsourced(b, baseStream, overlayStream, x, y, isShortest) ==
    LET out == P5_getUniqueStreamLabel(b, <<"v">>)
        shortestOpt == IF isShortest THEN <<":shortest=1">> ELSE <<>>
        emitted == P5_addFilterSegment(out.b,
                       baseStream \o <<"[", "v", "0", "]">> \o <<"overlay=">> \o Dec(x)
                       \o <<":">> \o Dec(y) \o shortestOpt \o out.ret)
    IN [b |-> emitted.b, ret |-> out.ret]

\* variant: the shortest option is never written
P5_overlayVideo_neverShortest(b, baseStream, overlayStream, x, y, isShortest) ==
    LET out == P5_getUniqueStreamLabel(b, <<"v">>)
        emitted == P5_addFilterSegment(out.b,
                       baseStream \o overlayStream \o <<"overlay=">> \o Dec(x)
                       \o <<":">> \o Dec(y) \o out.ret)
    IN [b |-> emitted.b, ret |-> out.ret]

P5_overlayVideo(b, baseStream, overlayStream, x, y, isShortest) ==
    LET out == P5_getUniqueStreamLabel(b, <<"v">>)
        shortestOpt == IF isShortest THEN <<":shortest=1">> ELSE <<>>
        emitted == P5_addFilterSegment(out.b,
                       baseStream \o overlayStream \o <<"overlay=">> \o Dec(x)
                       \o <<":">> \o Dec(y) \o shortestOpt \o out.ret)
    IN [b |-> emitted.b, ret |-> out.ret]

RECURSIVE concat(_)
concat(texts) == IF texts = <<>> THEN <<>> ELSE Head(texts) \o concat(Tail(texts))

\* mixAudio(audioStreams, 0.5); error marks the throw on an empty list
P5_mixAudio(b, audioStreams) ==
    IF Len(audioStreams) = 0 THEN [b |-> b, ret |-> None, error |-> TRUE]
    ELSE IF Len(audioStreams) = 1
    THEN [b |-> b, ret |-> Some(audioStreams[1]), error |-> FALSE]
    ELSE LET out == P5_getUniqueStreamLabel(b, <<"a">>)
             emitted == P5_addFilterSegment(out.b,
                            concat(audioStreams) \o <<"amix=inputs=">>
                            \o Dec(Len(audioStreams))
                            \o <<":duration=longest", ":dropout_transition=0.5">>
                            \o out.ret)
         IN [b |-> emitted.b, ret |-> Some(out.ret), error |-> FALSE]

(***************************************************************************)
(* Source lowering handlers (plugins/sources)                              *)
(***************************************************************************)
\* the kinds under which a handler is stored by sourceRegistry.register(kind, plugin)
sourceKinds == {"image", "audio", "colour"}

\* the kinds under which an effect handler is stored by effectRegistry.register
effectKinds == {}

\* a number between 0 and 1 kept in hundredths, printed as JavaScript prints it
fraction(n) ==
    IF n = 100 THEN <<"1">> ELSE IF n % 10 = 0 THEN <<"0.">> \o Dec(n \div 10)
    ELSE <<"0.">> \o (IF n < 10 THEN <<"0">> ELSE <<>>) \o Dec(n)

\* variant: the path is not registered before the source is lowered
Image_addInputs_notYet(b, clip, source) == b

Image_addInputs(b, clip, source) == P5_addInput(b, source.src, None).b

Image_getFilter(b, clip, source) ==
    LET inputIndex == P5_getInputCount(b) - 1
        targetWidth == clip.props.w
        targetHeight == clip.props.h
        scaled == P5_getUniqueStreamLabel(b, <<"v">>)
        scaleFilter ==
            <<"scale=">> \o Dec(targetWidth) \o <<":">> \o Dec(targetHeight)
            \o (IF source.resize = "fit"
                THEN <<":force_original_aspect_ratio=decrease">>
                ELSE IF source.resize = "fill"
                THEN <<":force_original_aspect_ratio=increase,crop=">>
                     \o Dec(targetWidth) \o <<":">> \o Dec(targetHeight)
                ELSE <<>>)
        chain1 == (IF inputIndex < 0 THEN <<"[", "-">> \o Dec(0 - inputIndex)
                   ELSE <<"[">> \o Dec(inputIndex))
                  \o <<":v]">> \o scaleFilter \o scaled.ret
        faded == IsSome(source.opacity) /\ Val(source.opacity) < 100
        opacityLabel == P5_getUniqueStreamLabel(scaled.b, <<"v">>)
        chain2 == IF faded
                  THEN chain1 \o <<";">> \o scaled.ret
                       \o <<"format=rgba,colorchannelmixer=aa=">>
                       \o fraction(Val(source.opacity)) \o opacityLabel.ret
                  ELSE chain1
        b2 == IF faded THEN opacityLabel.b ELSE scaled.b
    IN [b |-> P5_addFilter(b2, chain2).b,
        video |-> Some(IF faded THEN opacityLabel.ret ELSE scaled.ret),
        audio |-> None]

Audio_addInputs(b, clip, source) == P5_addInput(b, source.src, None).b

Audio_getFilter(b, clip, source) ==
    LET inputIndex == P5_getInputCount(b) - 1
    IN [b |-> b,
        video |-> None,
        audio |-> Some(<<"[">> \o Dec(inputIndex) \o <<":a]">>)]

Color_addInputs(b, clip, source) == b

Color_getFilter(b, clip, source) ==
    LET canvas == doc.canvas
        width == clip.props.w
        height == clip.props.h
        duration == clip.duration
        colorSpec == IF IsSome(source.opacity) /\ Val(source.opacity) < 100
                     THEN <<source.src, "@">> \o fraction(Val(source.opacity))
                     ELSE <<source.src>>
        colorStream == P5_getUniqueStreamLabel(b, <<"v">>)
        filterString == <<"color=c=">> \o colorSpec \o <<":s=">> \o Dec(width)
                        \o <<"x">> \o Dec(height) \o <<":d=">> \o Dec(duration)
                        \o <<":r=">> \o Dec(canvas.fps) \o colorStream.ret
    IN [b |-> P5_addFilter(colorStream.b, filterString).b,
        video |-> Some(colorStream.ret),
        audio |-> None]

addInputs(kind, b, clip, source) ==
    CASE kind = "image" -> Image_addInputs(b, clip, source)
      [] kind = "audio" -> Audio_addInputs(b, clip, source)
      [] kind = "colour" -> Color_addInputs(b, clip, source)

getFilter(kind, b, clip, source) ==
    CASE kind = "image" -> Image_getFilter(b, clip, source)
      [] kind = "audio" -> Audio_getFilter(b, clip, source)
      [] kind = "colour" -> Color_getFilter(b, clip, source)

(***************************************************************************)
(* VideoRenderer.render: the graph pass over the compiled timeline         *)
(***************************************************************************)
\* const sourceData = { kind: clip.kind, src: clip.src, ...clip.props }
sourceData(clip) ==
    [kind |-> clip.kind,
     src |-> clip.src,
     resize |-> IF clip.kind = "audio" THEN None ELSE Some(clip.props.resize),
     opacity |-> Some(clip.props.opacity)]

\* step 1, one clip after the other; error marks a throw of sourceRegistry.get
RECURSIVE processSources(_, _, _)
processSources(b, cs, i) ==
    IF i > Len(cs) THEN [b |-> b, error |-> FALSE]
    ELSE IF cs[i].kind \notin sourceKinds THEN [b |-> b, error |-> TRUE]
    ELSE LET clip == cs[i]
             source == [sourceData(clip) EXCEPT
                           !.resize = IF IsSome(@) THEN Val(@) ELSE "none"]
             b1 == addInputs(clip.kind, b, clip, source)
             out == getFilter(clip.kind, b1, clip, source)
             b2 == IF truthy(out.video)
                   THEN P5_updateClipStreamOutput(out.b, clip.id, "video", Val(out.video)).b
                   ELSE out.b
             b3 == IF truthy(out.audio)
                   THEN P5_updateClipStreamOutput(b2, clip.id, "audio", Val(out.audio)).b
                   ELSE b2
         IN processSources(b3, cs, i + 1)

\* variant: every effect kind has a handler
effectsThrow_never(cs) == FALSE

\* step 2: a clip that carries effects asks effectRegistry for each effect's handler
effectsThrow(cs) ==
    \E i \in 1..Len(cs) :
        \E k \in 1..Len(cs[i].effects) : cs[i].effects[k].kind \notin effectKinds

\* step 3: the base canvas
baseCanvas(b) ==
    LET canvasDetails == doc.canvas
        duration == Val(timeline).duration
    IN IF IsSome(canvasDetails.background)
       THEN LET bgSource == Val(canvasDetails.background)
                bgCtClip == [id |-> <<"canvas_background_clip">>,
                             kind |-> bgSource.kind,
                             src |-> bgSource.src,
                             track |-> 0,
                             start |-> 0,
                             end |-> duration,
                             duration |-> duration,
                             layerId |-> <<"canvas">>,
                             props |-> [w |-> canvasDetails.w, h |-> canvasDetails.h]]
                source == [kind |-> bgSource.kind, src |-> bgSource.src,
                           resize |-> "none", opacity |-> None]
            IN IF bgSource.kind = "colour"
               THEN LET out == Color_getFilter(b, bgCtClip, source)
                    IN [b |-> out.b, ret |-> out.video]
               ELSE LET b1 == Image_addInputs(b, bgCtClip, source)
                        out == Image_getFilter(b1, bgCtClip, source)
                    IN [b |-> out.b, ret |-> out.video]
       ELSE LET baseBlack == P5_getUniqueStreamLabel(b, <<"v">>)
                emitted == P5_addFilterSegment(baseBlack.b,
                               <<"color=c=black:s=">> \o Dec(canvasDetails.w)
                               \o <<"x">> \o Dec(canvasDetails.h)
                               \o <<":d=">> \o Dec(duration)
                               \o <<":r=">> \o Dec(canvasDetails.fps) \o baseBlack.ret)
            IN [b |-> emitted.b, ret |-> Some(baseBlack.ret)]

\* timeline.clips.filter(c => builder.getClipStreamOutput(c.id, 'video') && c.kind !== 'audio')
RECURSIVE videoClipsOf(_, _)
videoClipsOf(b, cs) ==
    IF cs = <<>> THEN <<>>
    ELSE (IF truthy(P5_getClipStreamOutput(b, Head(cs).id, "video"))
             /\ Head(cs).kind # "audio"
          THEN <<Head(cs)>> ELSE <<>>) \o videoClipsOf(b, Tail(cs))

\* step 4: the overlay loop; cur is currentTimelineVideoOutput
RECURSIVE overlayClips(_, _, _, _)
overlayClips(b, cur, videoClips, i) ==
    IF i > Len(videoClips) THEN [b |-> b, ret |-> cur]
    ELSE LET clip == videoClips[i]
             clipVideoStream == P5_getClipStreamOutput(b, clip.id, "video")
         IN IF truthy(clipVideoStream) /\ truthy(cur)
            THEN IF clip.track > 0
                 THEN LET out == P5_overlayVideo(b, Val(cur), Val(clipVideoStream),
                                                 clip.props.x, clip.props.y,
                                                 clip.kind # "video")
                      IN overlayClips(out.b, Some(out.ret), videoClips, i + 1)
                 ELSE overlayClips(b, cur, videoClips, i + 1)
            ELSE IF truthy(clipVideoStream) /\ ~truthy(cur)
                 THEN overlayClips(b, clipVideoStream, videoClips, i + 1)
                 ELSE overlayClips(b, cur, videoClips, i + 1)

\* step 5: the audio labels of the clips, in timeline order
RECURSIVE audioStreamsToMix(_, _)
audioStreamsToMix(b, cs) ==
    IF cs = <<>> THEN <<>>
    ELSE LET clipAudioStream == P5_getClipStreamOutput(b, Head(cs).id, "audio")
         IN (IF truthy(clipAudioStream) THEN <<Val(clipAudioStream)>> ELSE <<>>)
            \o audioStreamsToMix(b, Tail(cs))

\* the catch block of render
renderFailed ==
    /\ pc' = "failed"
    /\ result' = Some([success |-> FALSE])

RenderSources ==
    /\ pc = "returned"
    /\ revision = "none"
    /\ LET out == processSources(P5_new, Val(timeline).clips, 1)
       IN /\ revision' = "part_005"
          /\ builder' = out.b
          /\ IF out.error THEN renderFailed
             ELSE pc' = "sources" /\ result' = result
    /\ UNCHANGED <<inputLog, labelLog, filterLog, finalLog, built>>
    /\ UNCHANGED <<currentTimelineVideoOutput, outputFilename, run, firstRun>>
    /\ UNCHANGED ctVarsButPc
    /\ UNCHANGED extVars

RenderEffects ==
    /\ pc = "sources"
    /\ IF effectsThrow(Val(timeline).clips) THEN renderFailed
       ELSE pc' = "effects" /\ result' = result
    /\ UNCHANGED fgbVars
    /\ UNCHANGED <<currentTimelineVideoOutput, outputFilename, run, firstRun>>
    /\ UNCHANGED ctVarsButPc
    /\ UNCHANGED extVars

RenderBase ==
    /\ pc = "effects"
    /\ LET out == baseCanvas(builder)
       IN /\ builder' = out.b
          /\ currentTimelineVideoOutput' = out.ret
    /\ pc' = "base"
    /\ UNCHANGED <<revision, inputLog, labelLog, filterLog, finalLog, built>>
    /\ UNCHANGED <<outputFilename, result, run, firstRun>>
    /\ UNCHANGED ctVarsButPc
    /\ UNCHANGED extVars

RenderOverlays ==
    /\ pc = "base"
    /\ LET videoClips == sortClips(<<>>, videoClipsOf(builder, Val(timeline).clips))
           out == overlayClips(builder, currentTimelineVideoOutput, videoClips, 1)
       IN /\ builder' = out.b
          /\ currentTimelineVideoOutput' = out.ret
    /\ pc' = "overlays"
    /\ UNCHANGED <<revision, inputLog, labelLog, filterLog, finalLog, built>>
    /\ UNCHANGED <<outputFilename, result, run, firstRun>>
    /\ UNCHANGED ctVarsButPc
    /\ UNCHANGED extVars

\* lines 190-206: the final video output
RenderFinalVideo ==
    /\ pc = "overlays"
    /\ LET cs == Val(timeline).clips
           canvasDetails == doc.canvas
       IN IF truthy(currentTimelineVideoOutput)
          THEN builder' = P5_setFinalVideoOutput(builder, Val(currentTimelineVideoOutput)).b
          ELSE IF \E i \in 1..Len(cs) : cs[i].kind \notin {"audio", "colour", "image"}
          THEN LET blackScreen == P5_getUniqueStreamLabel(builder, <<"v">>)
                   emitted == P5_addFilterSegment(blackScreen.b,
                                  <<"color=c=black:s=">> \o Dec(canvasDetails.w)
                                  \o <<"x">> \o Dec(canvasDetails.h)
                                  \o <<":d=">> \o Dec(Val(timeline).duration)
                                  \o <<":r=">> \o Dec(canvasDetails.fps)
                                  \o blackScreen.ret)
               IN builder' = P5_setFinalVideoOutput(emitted.b, blackScreen.ret).b
          ELSE builder' = builder
    /\ pc' = "video"
    /\ UNCHANGED <<revision, inputLog, labelLog, filterLog, finalLog, built>>
    /\ UNCHANGED renderVars
    /\ UNCHANGED ctVarsButPc
    /\ UNCHANGED extVars

\* lines 209-224: the audio mix
RenderAudio ==
    /\ pc = "video"
    /\ LET streams == audioStreamsToMix(builder, Val(timeline).clips)
       IN IF Len(streams) > 0
          THEN LET mixed == P5_mixAudio(builder, streams)
               IN builder' = P5_setFinalAudioOutput(mixed.b, Val(mixed.ret)).b
          ELSE builder' = builder
    /\ pc' = "audio"
    /\ UNCHANGED <<revision, inputLog, labelLog, filterLog, finalLog, built>>
    /\ UNCHANGED renderVars
    /\ UNCHANGED ctVarsButPc
    /\ UNCHANGED extVars

\* the values Date.now() may return
Clock == {1000, 1001}

\* lines 228-230 and 257-260: build() and the name of the output file
RenderBuild ==
    /\ pc = "audio"
    /\ LET out == P5_build(builder)
       IN /\ built' = Some(out)
          /\ result' = IF Len(out.maps) > 0 THEN None ELSE Some([success |-> FALSE])
    /\ \E now \in Clock :
         outputFilename' = Some(<<"output-">> \o Dec(now) \o <<".mp4">>)
    /\ pc' = "built"
    /\ UNCHANGED <<revision, builder, inputLog, labelLog, filterLog, finalLog>>
    /\ UNCHANGED <<currentTimelineVideoOutput, run, firstRun>>
    /\ UNCHANGED ctVarsButPc
    /\ UNCHANGED extVars

\* the same document is handed to render() once more
RenderAgain ==
    /\ pc \in {"built", "failed"}
    /\ run = 1
    /\ firstRun' = Some([pc |-> pc, built |-> built, outputFilename |-> outputFilename,
                         pushed |-> blockLog])
    /\ run' = 2
    /\ pc' = "compile"
    /\ blockCounter' = 0
    /\ currentTime' = 0
    /\ clips' = <<>>
    /\ blockLog' = <<>>
    /\ timeline' = None
    /\ revision' = "none"
    /\ builder' = <<>>
    /\ built' = None
    /\ currentTimelineVideoOutput' = None
    /\ outputFilename' = None
    /\ result' = None
    /\ UNCHANGED <<doc, inputLog, labelLog, filterLog, finalLog>>
    /\ UNCHANGED extVars

RenderVisuals == { [kind |-> "image", src |-> "a.png"],
                   [kind |-> "colour", src |-> "red"],
                   [kind |-> "video", src |-> "clip.mp4"] }
RenderAudios == { [kind |-> "audio", src |-> "music.mp3"] }
RenderBackgrounds == { None,
                       Some([kind |-> "colour", src |-> "blue"]),
                       Some([kind |-> "image", src |-> "bg.png"]) }
RenderEffectLists == { <<>>, <<[kind |-> "fade", type |-> Some("in"), duration |-> Some(1)]>> }
BlocksRender ==
    withEffects(Blocks({None}, {None, Some(0)}, {Some(3)}, RenderVisuals, RenderAudios),
                RenderEffectLists)

InitRender ==
    /\ \E background \in RenderBackgrounds :
         doc = [blocks |-> <<>>, canvas |-> [PlainCanvas EXCEPT !.background = background]]
    /\ pc = "compile"
    /\ blockCounter = 0
    /\ currentTime = 0
    /\ clips = <<>>
    /\ blockLog = <<>>
    /\ timeline = None
    /\ NoBuilder
    /\ NoRender
    /\ NoExt

NextRender ==
    \/ CompileBlock(BlocksRender)
    \/ Finish
    \/ RenderSources
    \/ RenderEffects
    \/ RenderBase
    \/ RenderOverlays
    \/ RenderFinalVideo
    \/ RenderAudio
    \/ RenderBuild
    \/ RenderAgain

(***************************************************************************)
(* Effect handlers (plugins/effects)                                       *)
(***************************************************************************)
\* a number inside a template literal
Num(n) == IF n < 0 THEN <<"-">> \o Dec(0 - n) ELSE Dec(n)

\* variant: a duration of zero is applied
invalidDuration_negativeOnly(duration) == duration < 0

\* fade.ts: if (params.duration <= 0)
invalidDuration(duration) == duration <= 0

\* variant: the start of a fade-out is not clamped
fadeStartTime_unclamped(type, clipDuration, duration) ==
    IF type = "in" THEN 0 ELSE clipDuration - duration

\* fade.ts: const fadeStartTime, computed alike for the video and the audio stream
fadeStartTime(type, clipDuration, duration) ==
    IF type = "in" THEN 0 ELSE Max(0, clipDuration - duration)

\* FadeEffectRenderer.apply; warned marks a console.warn
Fade_apply(b, clip, effect, inputStreams) ==
    LET params == effect.params
    IN IF \/ ~IsSome(params)
          \/ ~IsSome(Val(params).type)
          \/ ~IsSome(Val(params).duration)
       THEN [b |-> b, ret |-> inputStreams, warned |-> TRUE]
       ELSE IF invalidDuration(Val(Val(params).duration))
       THEN [b |-> b, ret |-> inputStreams, warned |-> TRUE]
       ELSE LET type == Val(Val(params).type)
                duration == Val(Val(params).duration)
                color == Val(params).color
                videoOutputStream ==
                    P4_getUniqueStreamLabel(b, <<"v_">> \o clip.id \o <<"_fade_", type>>)
                fadeFilter ==
                    Val(inputStreams.video) \o <<"fade=t=", type, ":st=">>
                    \o Num(fadeStartTime(type, clip.duration, duration))
                    \o <<":d=">> \o Num(duration)
                    \o (IF truthy(color) THEN <<":color=">> \o Val(color) ELSE <<>>)
                    \o <<"[">> \o videoOutputStream.ret \o <<"]">>
                b1 == IF truthy(inputStreams.video)
                      THEN P4_addFilter(videoOutputStream.b, fadeFilter).b
                      ELSE b
                audioOutputStream ==
                    P4_getUniqueStreamLabel(b1, <<"a_">> \o clip.id \o <<"_fade_", type>>)
                afadeFilter ==
                    Val(inputStreams.audio) \o <<"afade=t=", type, ":st=">>
                    \o Num(fadeStartTime(type, clip.duration, duration))
                    \o <<":d=">> \o Num(duration)
                    \o <<"[">> \o audioOutputStream.ret \o <<"]">>
                b2 == IF truthy(inputStreams.audio)
                      THEN P4_addFilter(audioOutputStream.b, afadeFilter).b
                      ELSE b1
            IN [b |-> b2,
                ret |-> [video |-> IF truthy(inputStreams.video)
                                   THEN Some(videoOutputStream.ret)
                                   ELSE inputStreams.video,
                         audio |-> IF truthy(inputStreams.audio)
                                   THEN Some(audioOutputStream.ret)
                                   ELSE inputStreams.audio],
                warned |-> FALSE]

\* the effects a clip may carry: fades with usable parameters, and fades whose
\* parameters are missing or whose duration is not positive
FadeEffects ==
    { [kind |-> "fade", params |-> Some([type |-> Some(t), duration |-> Some(2), color |-> c])] :
          t \in {"in", "out"}, c \in {None, Some(<<"black">>)} }
    \cup { [kind |-> "fade", params |-> None],
           [kind |-> "fade", params |-> Some([type |-> None, duration |-> Some(2), color |-> None])],
           [kind |-> "fade", params |-> Some([type |-> Some("in"), duration |-> None, color |-> None])],
           [kind |-> "fade", params |-> Some([type |-> Some("out"), duration |-> Some(0), color |-> None])],
           [kind |-> "fade", params |-> Some([type |-> Some("in"), duration |-> Some(-1), color |-> None])] }

FxClips == { [id |-> <<"c", "1">>, duration |-> d] : d \in {1, 5} }

FxStreams ==
    { [video |-> v, audio |-> a] :
          v \in {None, Some(<<"[", "0", ":v]">>)}, a \in {None, Some(<<"[", "0", ":a]">>)} }

\* one turn of the loop over clip.effects: the handler gets the labels the
\* previous effect returned, and its result becomes the current labels
ApplyFade ==
    /\ pc = "effects"
    /\ IsSome(fxClip)
    /\ Len(fxLog) < MaxEffects
    /\ \E effect \in FadeEffects :
         LET effectInputStreams == fxStreams
             effectedStreams == Fade_apply(builder, Val(fxClip), effect, effectInputStreams)
         IN /\ builder' = effectedStreams.b
            /\ fxStreams' = effectedStreams.ret
            /\ fxLog' = Append(fxLog, [kind |-> "fade",
                                       clip |-> Val(fxClip),
                                       effect |-> effect,
                                       inputStreams |-> effectInputStreams,
                                       ret |-> effectedStreams.ret,
                                       warned |-> effectedStreams.warned,
                                       before |-> builder,
                                       after |-> effectedStreams.b])
    /\ UNCHANGED <<revision, inputLog, labelLog, filterLog, finalLog, built>>
    /\ UNCHANGED <<fxClip, accumulatedBlockTime, ffmpeg, suspended>>
    /\ UNCHANGED <<ctVars, renderVars>>

InitFX ==
    /\ pc = "effects"
    /\ revision = "part_004"
    /\ builder = P4_new
    /\ inputLog = <<>>
    /\ labelLog = <<>>
    /\ filterLog = <<>>
    /\ finalLog = <<>>
    /\ built = None
    /\ doc = [blocks |-> <<>>, canvas |-> PlainCanvas]
    /\ blockCounter = 0
    /\ currentTime = 0
    /\ clips = <<>>
    /\ blockLog = <<>>
    /\ timeline = None
    /\ NoRender
    /\ \E clip \in FxClips : fxClip = Some(clip)
    /\ fxStreams \in FxStreams
    /\ fxLog = <<>>
    /\ accumulatedBlockTime = 0
    /\ ffmpeg = None
    /\ suspended = None

NextFX ==
    \/ ApplyFade

(***************************************************************************)
(* Transition handlers (plugins/transitions)                               *)
(* Durations of this section are counted in half seconds.                  *)
(***************************************************************************)
\* a number of half seconds inside a template literal: 8 is "4", 1 is "0.5"
Seconds(h) ==
    IF h < 0 THEN <<"-">> \o Dec((0 - h) \div 2) \o (IF (0 - h) % 2 = 1 THEN <<".", "5">> ELSE <<>>)
    ELSE Dec(h \div 2) \o (IF h % 2 = 1 THEN <<".", "5">> ELSE <<>>)

\* variant: the offset is the plain difference
xfadeOffset_unclamped(fromDuration, transitionDuration) ==
    fromDuration - transitionDuration

\* crossfade.ts: const offset
xfadeOffset(fromDuration, transitionDuration) ==
    Max(0, fromDuration - transitionDuration)

\* variant: a channel that only one clip supplies is dropped
passThrough_dropped(fromStream, toStream) == None

\* crossfade.ts: the else-if branches of a channel that lacks one of its two streams
passThrough(fromStream, toStream) ==
    IF truthy(toStream) THEN toStream
    ELSE IF truthy(fromStream) THEN fromStream
    ELSE None

\* CrossFadeTransitionRenderer.apply; warned marks a console.warn
Crossfade_apply(b, fromClip, toClip, transition, inputStreams) ==
    LET transitionDuration == transition.duration
    IN IF transitionDuration = 0 \/ transitionDuration <= 0
       THEN [b |-> b,
             ret |-> [video |-> inputStreams.toVideo, audio |-> inputStreams.toAudio],
             warned |-> TRUE]
       ELSE LET bothVideo == truthy(inputStreams.fromVideo) /\ truthy(inputStreams.toVideo)
                bothAudio == truthy(inputStreams.fromAudio) /\ truthy(inputStreams.toAudio)
                videoOutputStream ==
                    P4_getUniqueStreamLabel(b, <<"v_trans_">> \o transition.id)
                offset == xfadeOffset(fromClip.duration, transitionDuration)
                xfadeFilter ==
                    <<"[">> \o Val(inputStreams.fromVideo) \o <<"]", "[">>
                    \o Val(inputStreams.toVideo) \o <<"]">>
                    \o <<"xfade=transition=fade", ":duration=">> \o Seconds(transitionDuration)
                    \o <<":offset=">> \o Seconds(offset)
                    \o <<"[">> \o videoOutputStream.ret \o <<"]">>
                b1 == IF bothVideo THEN P4_addFilter(videoOutputStream.b, xfadeFilter).b ELSE b
                audioOutputStream ==
                    P4_getUniqueStreamLabel(b1, <<"a_trans_">> \o transition.id)
                acrossfadeFilter ==
                    <<"[">> \o Val(inputStreams.fromAudio) \o <<"]", "[">>
                    \o Val(inputStreams.toAudio) \o <<"]">>
                    \o <<"acrossfade=d=">> \o Seconds(transitionDuration)
                    \o <<":curve1=tri:curve2=tri">>
                    \o <<"[">> \o audioOutputStream.ret \o <<"]">>
                b2 == IF bothAudio THEN P4_addFilter(audioOutputStream.b, acrossfadeFilter).b ELSE b1
            IN [b |-> b2,
                ret |-> [video |-> IF bothVideo THEN Some(videoOutputStream.ret)
                                   ELSE passThrough(inputStreams.fromVideo, inputStreams.toVideo),
                         audio |-> IF bothAudio THEN Some(audioOutputStream.ret)
                                   ELSE passThrough(inputStreams.fromAudio, inputStreams.toAudio)],
                warned |-> bothVideo /\ fromClip.duration < transitionDuration]

\* clips of 0.5 and of 5 seconds to leave, a clip of 3 seconds to enter
FromClips == { [id |-> <<"f">>, duration |-> d] : d \in {1, 10} }
ToClips == { [id |-> <<"t">>, duration |-> 6] }

\* transitions of 1 second and of no duration
Transitions == { [id |-> <<"x", "1">>, duration |-> d] : d \in {0, 2} }

TransitionStreams ==
    [fromVideo : {None, Some(<<"[", "0", ":v]">>)},
     fromAudio : {None, Some(<<"[", "0", ":a]">>)},
     toVideo : {None, Some(<<"[", "1", ":v]">>)},
     toAudio : {None, Some(<<"[", "1", ":a]">>)}]

\* one call of the transition handler on the builder
ApplyCrossfade ==
    /\ pc = "transitions"
    /\ Len(fxLog) < MaxTransitions
    /\ \E fromClip \in FromClips, toClip \in ToClips, transition \in Transitions,
          inputStreams \in TransitionStreams :
         LET out == Crossfade_apply(builder, fromClip, toClip, transition, inputStreams)
         IN /\ builder' = out.b
            /\ fxLog' = Append(fxLog, [kind |-> "crossfade",
                                       fromClip |-> fromClip,
                                       toClip |-> toClip,
                                       transition |-> transition,
                                       inputStreams |-> inputStreams,
                                       ret |-> out.ret,
                                       warned |-> out.warned,
                                       before |-> builder,
                                       after |-> out.b])
    /\ UNCHANGED <<revision, inputLog, labelLog, filterLog, finalLog, built>>
    /\ UNCHANGED <<fxClip, fxStreams, accumulatedBlockTime, ffmpeg, suspended>>
    /\ UNCHANGED <<ctVars, renderVars>>

InitTR ==
    /\ pc = "transitions"
    /\ revision = "part_004"
    /\ builder = P4_new
    /\ inputLog = <<>>
    /\ labelLog = <<>>
    /\ filterLog = <<>>
    /\ finalLog = <<>>
    /\ built = None
    /\ doc = [blocks |-> <<>>, canvas |-> PlainCanvas]
    /\ blockCounter = 0
    /\ currentTime = 0
    /\ clips = <<>>
    /\ blockLog = <<>>
    /\ timeline = None
    /\ NoRender
    /\ NoExt

NextTR ==
    \/ ApplyCrossfade

(***************************************************************************)
(* convertToCanonicalTimeline, revision with global background and overlay *)
(* (unnamed/part_003, lines 355-558)                                       *)
(***************************************************************************)
Z_BACKGROUND == 0
Z_BLOCK_BASE == 100
Z_OVERLAY_BASE == 10000
DEFAULT_BLOCK_DURATION_FOR_STATIC_CONTENT == 2

\* a || b on optional strings
orElse(a, b) == IF truthy(a) THEN Val(a) ELSE b

\* currentBlockGlobalZ + blockIndex * 10
blockBaseZ(blockIndex) == Z_BLOCK_BASE + blockIndex * 10

\* one turn of elements.forEach inside processSourceElements: the clip that is
\* pushed, or nothing when the element is skipped
elementClip(blockDef, blockStartTime, sourceEl, elIndex, kindPrefix, baseZ) ==
    LET blockExplicitDuration == blockDef.duration
        elStartTime == IF IsSome(sourceEl.at) THEN Val(sourceEl.at) ELSE 0
        fillsBlock == /\ IsSome(blockExplicitDuration)
                      /\ Val(blockExplicitDuration) # 0
                      /\ Val(blockExplicitDuration) - elStartTime > 0
        given == IsSome(sourceEl.duration) /\ Val(sourceEl.duration) # 0
        skipped == ~given /\ sourceEl.kind \in {"video", "audio"} /\ ~fillsBlock
        elDuration ==
            IF given THEN Val(sourceEl.duration)
            ELSE IF fillsBlock THEN Val(blockExplicitDuration) - elStartTime
            ELSE DEFAULT_BLOCK_DURATION_FOR_STATIC_CONTENT
    IN IF skipped \/ elDuration <= 0 THEN <<>>
       ELSE << [id |-> orElse(sourceEl.id,
                              blockDef.id \o <<"_", kindPrefix, "_">> \o Dec(elIndex)),
                sourceIdRef |-> sourceEl.id,
                kind |-> sourceEl.kind,
                src |-> sourceEl.src,
                absoluteStartTime |-> blockStartTime + elStartTime,
                duration |-> elDuration,
                zIndex |-> baseZ + elIndex,
                opacity |-> 100,
                resizeMode |-> IF sourceEl.kind \in {"video", "image"}
                               THEN Some("fill") ELSE None,
                volume |-> 100] >>

\* processSourceElements: the clips pushed for one array of a block, in order
RECURSIVE processSourceElements(_, _, _, _, _, _)
processSourceElements(blockDef, blockStartTime, elements, elIndex, kindPrefix, baseZ) ==
    IF elIndex >= Len(elements) THEN <<>>
    ELSE elementClip(blockDef, blockStartTime, elements[elIndex + 1], elIndex, kindPrefix, baseZ)
         \o processSourceElements(blockDef, blockStartTime, elements, elIndex + 1,
                                  kindPrefix, baseZ)

RECURSIVE maxEndTimeInBlock(_, _)
maxEndTimeInBlock(pushed, acc) ==
    IF pushed = <<>> THEN acc
    ELSE maxEndTimeInBlock(Tail(pushed),
                           Max(acc, Head(pushed).absoluteStartTime + Head(pushed).duration))

\* 2. Process Background
V3Background ==
    /\ pc = "v3_background"
    /\ IF IsSome(doc.background)
       THEN LET bgSource == Val(doc.background)
            IN \E now \in Clock :
                 clips' = Append(clips,
                     [id |-> orElse(bgSource.id, <<"background_global_">> \o Dec(now)),
                      sourceIdRef |-> bgSource.id,
                      kind |-> bgSource.kind,
                      src |-> bgSource.src,
                      absoluteStartTime |-> 0,
                      duration |-> IF IsSome(bgSource.duration) THEN Val(bgSource.duration)
                                   ELSE DEFAULT_BLOCK_DURATION_FOR_STATIC_CONTENT,
                      zIndex |-> Z_BACKGROUND,
                      opacity |-> 100,
                      resizeMode |-> Some("fill"),
                      volume |-> 100])
       ELSE clips' = clips
    /\ pc' = "v3_blocks"
    /\ accumulatedBlockTime' = 0
    /\ UNCHANGED <<doc, blockCounter, currentTime, blockLog, timeline>>
    /\ UNCHANGED <<fgbVars, renderVars, fxVars, ffmpeg, suspended>>

\* 3. Process Blocks: one turn of the loop over doc.blocks.entries()
V3Block ==
    /\ pc = "v3_blocks"
    /\ blockCounter < Len(doc.blocks)
    /\   LET blockIndex == blockCounter
             blockDef == doc.blocks[blockIndex + 1]
             blockStartTime == accumulatedBlockTime
             visuals == processSourceElements(blockDef, blockStartTime, blockDef.visuals, 0,
                                              "vis", blockBaseZ(blockIndex))
             audio == processSourceElements(blockDef, blockStartTime, blockDef.audio, 0,
                                            "aud", 0)
             pushed == visuals \o audio
             fromContent == maxEndTimeInBlock(pushed, blockStartTime) - blockStartTime
             blockExplicitDuration ==
                 IF IsSome(blockDef.duration) THEN Val(blockDef.duration)
                 ELSE IF fromContent <= 0 /\ (Len(blockDef.visuals) > 0 \/ Len(blockDef.audio) > 0)
                 THEN DEFAULT_BLOCK_DURATION_FOR_STATIC_CONTENT
                 ELSE fromContent
         IN /\ clips' = clips \o pushed
            /\ accumulatedBlockTime' = blockStartTime + blockExplicitDuration
            /\ currentTime' = Max(currentTime, blockStartTime + blockExplicitDuration)
            /\ blockCounter' = blockCounter + 1
    /\ UNCHANGED <<doc, pc, blockLog, timeline>>
    /\ UNCHANGED <<fgbVars, renderVars, fxVars, ffmpeg, suspended>>

\* 4. Process Overlay
V3Overlay ==
    /\ pc = "v3_blocks"
    /\ blockCounter = Len(doc.blocks)
    /\ IF IsSome(doc.overlay)
       THEN LET overlaySource == Val(doc.overlay)
                overlayStartTime == IF IsSome(overlaySource.at) THEN Val(overlaySource.at) ELSE 0
                overlayDuration == IF IsSome(overlaySource.duration)
                                   THEN Val(overlaySource.duration)
                                   ELSE DEFAULT_BLOCK_DURATION_FOR_STATIC_CONTENT
            IN /\ \E now \in Clock :
                    clips' = Append(clips,
                        [id |-> orElse(overlaySource.id, <<"overlay_global_">> \o Dec(now)),
                         sourceIdRef |-> overlaySource.id,
                         kind |-> overlaySource.kind,
                         src |-> overlaySource.src,
                         absoluteStartTime |-> overlayStartTime,
                         duration |-> overlayDuration,
                         zIndex |-> Z_OVERLAY_BASE,
                         opacity |-> 100,
                         resizeMode |-> Some("fill"),
                         volume |-> 100])
               /\ currentTime' = Max(currentTime, overlayStartTime + overlayDuration)
       ELSE UNCHANGED <<clips, currentTime>>
    /\ pc' = "v3_overlay"
    /\ UNCHANGED <<doc, blockCounter, blockLog, timeline, accumulatedBlockTime>>
    /\ UNCHANGED <<fgbVars, renderVars, fxVars, ffmpeg, suspended>>

compareClipsV3(a, b) ==
    IF a.absoluteStartTime # b.absoluteStartTime
    THEN a.absoluteStartTime - b.absoluteStartTime
    ELSE a.zIndex - b.zIndex

\* clips.sort(...): the sort is stable, so a clip is preceded by the clips
\* that compare lower and by the equal ones that were pushed earlier
sortClipsV3(cs) ==
    LET n == Len(cs)
        precedes(j, i) ==
            LET order == compareClipsV3(cs[j], cs[i])
            IN order < 0 \/ (order = 0 /\ j < i)
        rank == SubSeq([i \in 1..n |-> Cardinality({ j \in 1..n : precedes(j, i) }) + 1], 1, n)
    IN [k \in 1..n |-> cs[CHOOSE i \in 1..n : rank[i] = k]]

\* the background clip takes the length of the timeline, then 5. Sort Clips
\* and the return
V3Finish ==
    /\ pc = "v3_overlay"
    /\ LET found == { i \in 1..Len(clips) : clips[i].zIndex = Z_BACKGROUND }
           bgClip == IF found = {} THEN 0
                     ELSE CHOOSE i \in found : \A j \in found : i <= j
           updated ==
               IF /\ bgClip # 0
                  /\ clips[bgClip].duration = DEFAULT_BLOCK_DURATION_FOR_STATIC_CONTENT
                  /\ IsSome(doc.background)
                  /\ ~IsSome(Val(doc.background).duration)
               THEN [clips EXCEPT ![bgClip].duration = currentTime]
               ELSE clips
           sorted == sortClipsV3(updated)
       IN /\ clips' = sorted
          /\ timeline' = Some([version |-> "v1",
                               canvasWidth |-> doc.canvas.w,
                               canvasHeight |-> doc.canvas.h,
                               fps |-> doc.canvas.fps,
                               clips |-> sorted])
    /\ pc' = "v3_returned"
    /\ UNCHANGED <<doc, blockCounter, currentTime, blockLog, accumulatedBlockTime>>
    /\ UNCHANGED <<fgbVars, renderVars, fxVars, ffmpeg, suspended>>

\* sources of the layout the blocks, the background and the overlay are made of
V3Image == [id |-> None, kind |-> "image", src |-> "a.png", at |-> None, duration |-> None]
V3Colour == [id |-> None, kind |-> "colour", src |-> "red", at |-> None, duration |-> None]
V3Audio == [id |-> None, kind |-> "audio", src |-> "music.mp3", at |-> None, duration |-> Some(3)]

BlocksV3 ==
    [id : {<<>>},
     duration : {None, Some(3)},
     visuals : {<<V3Image>>, <<V3Image, V3Colour>>},
     audio : {<<>>, <<V3Audio>>}]

\* the blocks of a document carry distinct ids
withIds(blocks) == [i \in DOMAIN blocks |-> [blocks[i] EXCEPT !.id = <<"b">> \o Dec(i - 1)]]

\* a block with neither visuals nor audio
EmptyBlockV3 == [id |-> <<>>, duration |-> None, visuals |-> <<>>, audio |-> <<>>]

\* short documents of any blocks, and long documents whose last block alone
\* has content
DocumentsV3 ==
    { withIds(blocks) : blocks \in SeqsUpTo(BlocksV3, MaxBlocks) }
    \cup { withIds([i \in 1..MaxBlocksV3 |-> IF i < MaxBlocksV3 THEN EmptyBlockV3 ELSE block]) :
              block \in { b \in BlocksV3 : b.audio = <<>> } }

InitV3 ==
    /\ \E blocks \in DocumentsV3 :
       \E background \in {None, Some(V3Colour)}, overlay \in {None, Some(V3Image)} :
         doc = [blocks |-> blocks, canvas |-> PlainCanvas,
                background |-> background, overlay |-> overlay]
    /\ pc = "v3_background"
    /\ blockCounter = 0
    /\ currentTime = 0
    /\ clips = <<>>
    /\ blockLog = <<>>
    /\ timeline = None
    /\ NoBuilder
    /\ NoRender
    /\ NoExt

NextV3 ==
    \/ V3Background
    \/ V3Block
    \/ V3Overlay
    \/ V3Finish

(***************************************************************************)
(* The engine invocation: runFFmpeg (VideoRenderer.ts, lines 268-331 and   *)
(* 472-515) and executeFFmpegCommand (crossfade.ts, lines 129-182).        *)
(* The child process is the environment. Its 'error' event tells that the  *)
(* process could not be spawned (the code never kills it nor sends to it); *)
(* such a process writes nothing and, when it closes, closes with the      *)
(* negative errno. A spawned process writes to stderr until it closes,     *)
(* with an exit code or, when a signal ended it, with null.                *)
(***************************************************************************)
ENOENT == 0 - 2
Invocations == {"runFFmpeg", "runFFmpeg_2", "executeFFmpegCommand"}
ExitCodes == {Some(0), Some(1), None}
Chunks == { <<"frame=1", "\n">>, <<"frame=2", "\r">>, <<"warning">> }

\* resolve(value) of the promise: only the first call settles it
resolve(f, value) ==
    [f EXCEPT !.promise = IF IsSome(@) THEN @ ELSE Some(value),
              !.resolves = @ + 1,
              !.settles = IF IsSome(f.promise) THEN @ ELSE @ + 1]

\* progressBuffer.indexOf('\n'), else progressBuffer.indexOf('\r'); 0 for none
lineEndIndex(buffer) ==
    LET at(ch) == { i \in 1..Len(buffer) : buffer[i] = ch }
        first(S) == CHOOSE i \in S : \A j \in S : i <= j
    IN IF at("\n") # {} THEN first(at("\n"))
       ELSE IF at("\r") # {} THEN first(at("\r"))
       ELSE 0

\* the while loop of the stderr handler: what is left in progressBuffer and the
\* number of progress lines written
RECURSIVE progressLines(_, _)
progressLines(buffer, written) ==
    LET k == lineEndIndex(buffer)
    IN IF k = 0 THEN [buffer |-> buffer, written |-> written]
       ELSE LET line == SubSeq(buffer, 1, k - 1)
            IN progressLines(SubSeq(buffer, k + 1, Len(buffer)),
                             IF line # <<>> /\ line[1] \in {"frame=1", "frame=2"}
                             THEN written + 1 ELSE written)

\* variant: the close handler reports success whatever the code
closeResult_anyCode(f, code) == [success |-> TRUE, code |-> code, stderr |-> <<>>]

\* the value the 'close' handler resolves with
closeResult(f, code) ==
    IF code = Some(0)
    THEN [success |-> TRUE, code |-> code, stderr |-> <<>>]
    ELSE [success |-> FALSE, code |-> code, stderr |-> f.stderr]

\* the call: new Promise(...)
FFCall ==
    /\ pc = "engine"
    /\ ffmpeg = None
    /\ \E fn \in Invocations :
         ffmpeg' = Some([fn |-> fn,
                         stage |-> IF fn = "executeFFmpegCommand" THEN "spawn" ELSE "mkdir",
                         spawned |-> FALSE,
                         errored |-> FALSE,
                         closed |-> FALSE,
                         code |-> None,
                         stderr |-> <<>>,
                         progressBuffer |-> <<>>,
                         progress |-> 0,
                         promise |-> None,
                         resolves |-> 0,
                         settles |-> 0])
    /\ UNCHANGED <<ctVars, fgbVars, renderVars, fxVars, accumulatedBlockTime, suspended>>

\* await fs.mkdir(outputDir): on failure the promise is resolved and nothing
\* is spawned
FFMkdir ==
    /\ IsSome(ffmpeg)
    /\ Val(ffmpeg).stage = "mkdir"
    /\ \E ok \in BOOLEAN :
         ffmpeg' = IF ok THEN Some([Val(ffmpeg) EXCEPT !.stage = "spawn"])
                   ELSE Some([resolve(Val(ffmpeg),
                                      [success |-> FALSE, code |-> None, stderr |-> <<>>])
                                EXCEPT !.stage = "returned"])
    /\ UNCHANGED <<ctVars, fgbVars, renderVars, fxVars, accumulatedBlockTime, suspended>>

\* spawn(ffmpegPath, args) and the registration of the handlers
FFSpawn ==
    /\ IsSome(ffmpeg)
    /\ Val(ffmpeg).stage = "spawn"
    /\ \E spawned \in BOOLEAN :
         ffmpeg' = Some([Val(ffmpeg) EXCEPT !.stage = "running", !.spawned = spawned])
    /\ UNCHANGED <<ctVars, fgbVars, renderVars, fxVars, accumulatedBlockTime, suspended>>

\* ffmpeg.stderr.on('data', ...)
FFStderrData ==
    /\ IsSome(ffmpeg)
    /\ Val(ffmpeg).stage = "running"
    /\ Val(ffmpeg).spawned
    /\ ~Val(ffmpeg).closed
    /\ Len(Val(ffmpeg).stderr) < MaxChunks
    /\ \E chunk \in Chunks :
         LET f == Val(ffmpeg)
             lines == progressLines(f.progressBuffer \o chunk, f.progress)
         IN ffmpeg' = Some(IF f.fn = "runFFmpeg"
                           THEN [f EXCEPT !.stderr = Append(@, chunk),
                                          !.progressBuffer = lines.buffer,
                                          !.progress = lines.written]
                           ELSE [f EXCEPT !.stderr = Append(@, chunk)])
    /\ UNCHANGED <<ctVars, fgbVars, renderVars, fxVars, accumulatedBlockTime, suspended>>

\* ffmpeg.on('error', ...)
FFError ==
    /\ IsSome(ffmpeg)
    /\ Val(ffmpeg).stage = "running"
    /\ ~Val(ffmpeg).spawned
    /\ ~Val(ffmpeg).errored
    /\ ~Val(ffmpeg).closed
    /\ ffmpeg' = Some([resolve(Val(ffmpeg),
                               [success |-> FALSE, code |-> None, stderr |-> Val(ffmpeg).stderr])
                         EXCEPT !.errored = TRUE])
    /\ UNCHANGED <<ctVars, fgbVars, renderVars, fxVars, accumulatedBlockTime, suspended>>

\* ffmpeg.on('close', ...)
FFClose ==
    /\ IsSome(ffmpeg)
    /\ Val(ffmpeg).stage = "running"
    /\ ~Val(ffmpeg).closed
    /\ \E code \in ExitCodes \cup {Some(ENOENT)} :
         /\ IF Val(ffmpeg).spawned THEN code \in ExitCodes
            ELSE Val(ffmpeg).errored /\ code = Some(ENOENT)
         /\ ffmpeg' = Some([resolve(Val(ffmpeg), closeResult(Val(ffmpeg), code))
                              EXCEPT !.closed = TRUE, !.code = code])
    /\ UNCHANGED <<ctVars, fgbVars, renderVars, fxVars, accumulatedBlockTime, suspended>>

InitFF ==
    /\ doc = [blocks |-> <<>>, canvas |-> PlainCanvas]
    /\ pc = "engine"
    /\ blockCounter = 0
    /\ currentTime = 0
    /\ clips = <<>>
    /\ blockLog = <<>>
    /\ timeline = None
    /\ NoBuilder
    /\ NoRender
    /\ NoExt

NextFF ==
    \/ FFCall
    \/ FFMkdir
    \/ FFSpawn
    \/ FFStderrData
    \/ FFError
    \/ FFClose

(***************************************************************************)
(* Specifications                                                          *)
(***************************************************************************)
InitCT ==
    /\ doc = [blocks |-> <<>>, canvas |-> PlainCanvas]
    /\ pc = "compile"
    /\ blockCounter = 0
    /\ currentTime = 0
    /\ clips = <<>>
    /\ blockLog = <<>>
    /\ timeline = None
    /\ NoBuilder
    /\ NoRender
    /\ NoExt

NextCT == CompileBlock(BlocksCT) \/ Finish

\* documents in which some blocks carry an id of their own: one that has the
\* shape of a generated id, and one that has not
BlocksID ==
    Blocks({None, Some(<<"block", "_", "2">>), Some(<<"intro">>)},
           {None}, {Some(3)}, {[kind |-> "image", src |-> "bg.png"]}, AudioPool)

NextID == CompileBlock(BlocksID) \/ Finish

(***************************************************************************)
(* The input pass of render for file-backed clips, over either revision of *)
(* FilterGraphBuilder.addInput                                             *)
(***************************************************************************)
MaxLowered == 3     \* most clips lowered onto one FilterGraphBuilder

AudioPaths == {"a.mp3", "b.mp3", "c.mp3"}

AudioClipsIX ==
    { [id |-> <<"clip">>, kind |-> "audio", src |-> p, props |-> [opacity |-> 100]]
        : p \in AudioPaths }

\* builder.addInput(source.src) as the revision in use carries it out
addInputOf(rev, b, clip, source) ==
    IF rev = "part_004" THEN P4_addInput(b, source.src).b
    ELSE Audio_addInputs(b, clip, source)

\* the path an -i argument at `index` stands for
inputPathAt(rev, b, index) ==
    IF rev = "part_004" THEN b.inputs[index + 1] ELSE b.inputs[index + 1].filePath

\* one turn of `for (const clip of timeline.clips)`: addInputs, then getFilter
LowerSource ==
    /\ pc = "lowering"
    /\ Len(inputLog) < Len(clips)
    /\ LET clip == clips[Len(inputLog) + 1]
           source == [kind |-> clip.kind, src |-> clip.src]
           b1 == addInputOf(revision, builder, clip, source)
           out == Audio_getFilter(b1, clip, source)
       IN /\ builder' = out.b
          /\ inputLog' = Append(inputLog, [filePath |-> clip.src, audio |-> Val(out.audio)])
    /\ UNCHANGED <<doc, pc, blockCounter, currentTime, clips, blockLog, timeline>>
    /\ UNCHANGED <<revision, labelLog, filterLog, finalLog, built>>
    /\ UNCHANGED renderVars
    /\ UNCHANGED extVars

InitIX ==
    /\ pc = "lowering"
    /\ \/ revision = "part_004" /\ builder = P4_new
       \/ revision = "FilterGraphBuilder.ts" /\ builder = P5_new
    /\ clips \in SeqsUpTo(AudioClipsIX, MaxLowered)
    /\ inputLog = <<>>
    /\ labelLog = <<>>
    /\ filterLog = <<>>
    /\ finalLog = <<>>
    /\ built = None
    /\ doc = [blocks |-> <<>>, canvas |-> PlainCanvas]
    /\ blockCounter = 0
    /\ currentTime = 0
    /\ blockLog = <<>>
    /\ timeline = None
    /\ NoRender
    /\ NoExt

NextIX == LowerSource

(***************************************************************************)
(* Two render() calls in flight on one event loop.  The variables above    *)
(* are the locals of the call that is running; the locals of the other     *)
(* call wait in `suspended`.  Control changes hands only where render or   *)
(* convertToCanonicalTimeline awaits.                                      *)
(***************************************************************************)
BlocksCC ==
    Blocks({None}, {None}, {Some(3)},
           { [kind |-> "image", src |-> "a.png"] }, RenderAudios)

\* the positions at which a call waits for a promise: the probes of a block
\* (CanonicalTimeline.ts:111-145), the compiled timeline (VideoRenderer.ts:37),
\* the engine (VideoRenderer.ts:251)
AwaitPoints == {"compile", "returned", "built", "failed"}

\* what one call of render declares with const / let (VideoRenderer.ts:35-41,
\* 91, 228-229; CanonicalTimeline.ts:78-80)
locals ==
    [doc |-> doc, pc |-> pc, blockCounter |-> blockCounter, currentTime |-> currentTime,
     clips |-> clips, blockLog |-> blockLog, timeline |-> timeline,
     revision |-> revision, builder |-> builder, built |-> built,
     currentTimelineVideoOutput |-> currentTimelineVideoOutput,
     outputFilename |-> outputFilename, result |-> result]

\* variant: clips is one array at module level, seen by every call
clipsOfCall_moduleLevel(own, live) == live

\* const clips: CTClip[] = [] belongs to the call: a call that resumes finds
\* the array it left, not the one the other call worked on
clipsOfCall(own, live) == own

\* the running call reaches an await, the waiting call resumes
Switch ==
    /\ IsSome(suspended)
    /\ pc \in AwaitPoints
    /\ Val(suspended).pc \notin {"built", "failed"}
    /\ LET other == Val(suspended)
       IN /\ suspended' = Some(locals)
          /\ doc' = other.doc
          /\ pc' = other.pc
          /\ blockCounter' = other.blockCounter
          /\ currentTime' = other.currentTime
          /\ clips' = clipsOfCall(other.clips, clips)
          /\ blockLog' = other.blockLog
          /\ timeline' = other.timeline
          /\ revision' = other.revision
          /\ builder' = other.builder
          /\ built' = other.built
          /\ currentTimelineVideoOutput' = other.currentTimelineVideoOutput
          /\ outputFilename' = other.outputFilename
          /\ result' = other.result
    /\ UNCHANGED <<inputLog, labelLog, filterLog, finalLog, run, firstRun>>
    /\ UNCHANGED <<fxVars, accumulatedBlockTime, ffmpeg>>

InitCC ==
    /\ \E background \in {None, Some([kind |-> "colour", src |-> "blue"])} :
         doc = [blocks |-> <<>>, canvas |-> [PlainCanvas EXCEPT !.background = background]]
    /\ pc = "compile"
    /\ blockCounter = 0
    /\ currentTime = 0
    /\ clips = <<>>
    /\ blockLog = <<>>
    /\ timeline = None
    /\ NoBuilder
    /\ NoRender
    /\ NoFx
    /\ accumulatedBlockTime = 0
    /\ ffmpeg = None
    /\ suspended = Some(locals)

NextCC ==
    \/ CompileBlock(BlocksCC)
    \/ Finish
    \/ RenderSources
    \/ RenderEffects
    \/ RenderBase
    \/ RenderOverlays
    \/ RenderFinalVideo
    \/ RenderAudio
    \/ RenderBuild
    \/ Switch

vars == <<ctVars, fgbVars, renderVars, extVars>>

SpecCT == InitCT /\ [][NextCT]_vars

SpecFGB == InitFGB /\ [][NextFGB]_vars

SpecRender == InitRender /\ [][NextRender]_vars

SpecFX == InitFX /\ [][NextFX]_vars

SpecTR == InitTR /\ [][NextTR]_vars

SpecV3 == InitV3 /\ [][NextV3]_vars

SpecID == InitCT /\ [][NextID]_vars

SpecFF == InitFF /\ [][NextFF]_vars

SpecIX == InitIX /\ [][NextIX]_vars

SpecCC == InitCC /\ [][NextCC]_vars

(***************************************************************************)
(* Properties of the Timeline Compiler                                     *)
(***************************************************************************)
returned == IsSome(timeline)
returnedClips == Val(timeline).clips

RECURSIVE flatten(_)
flatten(log) == IF log = <<>> THEN <<>> ELSE Head(log).clips \o flatten(Tail(log))

\* the clips in the order the loop pushed them
pushedClips == flatten(blockLog)

SetMax(S) == CHOOSE m \in S : \A e \in S : e <= m

\* C1: in the clip list returned by the Timeline Compiler, any clip a that
\* appears before a clip b has a.start < b.start, or a.start = b.start and
\* a.track <= b.track.
C1_ClipsSorted ==
    returned =>
        \A i, j \in 1..Len(returnedClips) :
            i < j =>
                LET a == returnedClips[i]
                    b == returnedClips[j]
                IN a.start < b.start \/ (a.start = b.start /\ a.track <= b.track)

\* the loop pushed a later-starting clip first and a higher track before a lower
\* one at the same start, and the function has returned
C1_Witness ==
    /\ returned
    /\ \E i, j \in 1..Len(pushedClips) :
          i < j /\ pushedClips[i].start > pushedClips[j].start
    /\ \E i, j \in 1..Len(pushedClips) :
          /\ i < j
          /\ pushedClips[i].start = pushedClips[j].start
          /\ pushedClips[i].track > pushedClips[j].track

StaticContentDefault == 5
EmptyBlockDefault == 1

videoProbes(block) ==
    { probeSource(block.visuals[k], None).duration :
        k \in { m \in 1..Len(block.visuals) : block.visuals[m].kind = "video" } }

\* the precedence of duration resolution, stated rule by rule
resolvedDuration(block) ==
    IF IsSome(block.duration) THEN Val(block.duration)
    ELSE IF IsSome(block.audio) /\ probeSource(Val(block.audio), None).duration # Infinity
         THEN probeSource(Val(block.audio), None).duration
    ELSE IF videoProbes(block) # {} THEN SetMax(videoProbes(block))
    ELSE IF Len(block.visuals) > 0 THEN StaticContentDefault
    ELSE EmptyBlockDefault

oneVideoBlock ==
    [id |-> None, at |-> None, duration |-> None,
     visuals |-> <<[kind |-> "video", src |-> "clip.mp4"]>>, audio |-> None]

\* C2: a block's resolved duration is its explicit duration if given, else the
\* probed duration of its audio source if it has one and it is finite, else the
\* longest probed duration among its video visuals, else the static-content
\* default if it has only image/colour visuals, else the empty-block default;
\* one block with no duration, one video probed at 10 and no audio resolves to
\* 10 and yields exactly one clip with start 0 and end 10.
C2_DurationPrecedence ==
    /\ \A i \in 1..Len(blockLog) :
          blockLog[i].duration = resolvedDuration(doc.blocks[i])
    /\ (returned /\ doc.blocks = <<oneVideoBlock>>) =>
          /\ blockLog[1].duration = 10
          /\ Len(returnedClips) = 1
          /\ returnedClips[1].start = 0
          /\ returnedClips[1].end = 10

\* a block with audio and a video and no duration, next to a block of static
\* visuals only, both compiled and returned
C2_Witness ==
    /\ returned
    /\ \E i, j \in 1..Len(doc.blocks) :
          /\ ~IsSome(doc.blocks[i].duration)
          /\ IsSome(doc.blocks[i].audio)
          /\ videoProbes(doc.blocks[i]) # {}
          /\ blockLog[i].duration = 30
          /\ ~IsSome(doc.blocks[j].duration)
          /\ ~IsSome(doc.blocks[j].audio)
          /\ Len(doc.blocks[j].visuals) > 0
          /\ videoProbes(doc.blocks[j]) = {}
          /\ blockLog[j].duration = StaticContentDefault

\* the cursor after the first n blocks: the end of the most recent block without
\* `at` among them, 0 if there is none
RECURSIVE cursorAfter(_)
cursorAfter(n) ==
    IF n = 0 THEN 0
    ELSE IF IsSome(doc.blocks[n].at) THEN cursorAfter(n - 1)
    ELSE blockLog[n].start + blockLog[n].duration

cursorLeftBy(i) == IF i < Len(blockLog) THEN blockLog[i + 1].cursor ELSE currentTime

threeSecondBlock ==
    [id |-> None, at |-> None, duration |-> Some(3),
     visuals |-> <<[kind |-> "image", src |-> "bg.png"]>>, audio |-> None]

\* C3: a block with `at` starts at `at` and leaves the running cursor unchanged;
\* a block without `at` starts at the cursor, which is the end (start + resolved
\* duration) of the most recent earlier block without `at`, or 0 if there is
\* none; two sequential blocks of duration 3 give clips 0..3 and 3..6 and total
\* duration 6.
C3_CursorSemantics ==
    /\ \A i \in 1..Len(blockLog) :
          LET block == doc.blocks[i]
          IN /\ IsSome(block.at) =>
                  /\ blockLog[i].start = Val(block.at)
                  /\ cursorLeftBy(i) = blockLog[i].cursor
             /\ ~IsSome(block.at) =>
                  /\ blockLog[i].start = cursorAfter(i - 1)
                  /\ cursorLeftBy(i) = blockLog[i].start + blockLog[i].duration
             /\ \A k \in 1..Len(blockLog[i].clips) :
                  blockLog[i].clips[k].start = blockLog[i].start
    /\ (returned /\ doc.blocks = <<threeSecondBlock, threeSecondBlock>>) =>
          /\ Len(returnedClips) = 2
          /\ returnedClips[1].start = 0 /\ returnedClips[1].end = 3
          /\ returnedClips[2].start = 3 /\ returnedClips[2].end = 6
          /\ Val(timeline).duration = 6

\* a sequential block has moved the cursor away from 0, and a block with `at`
\* came after it and started somewhere else than the cursor
C3_Witness ==
    /\ Len(blockLog) = 2
    /\ ~IsSome(doc.blocks[1].at)
    /\ blockLog[1].duration > 0
    /\ IsSome(doc.blocks[2].at)
    /\ blockLog[2].clips # <<>>
    /\ blockLog[2].cursor # blockLog[2].start
    /\ currentTime = blockLog[2].cursor

\* C4: every clip produced from a block lies inside the block's resolved
\* interval, clip.start >= block start and clip.end <= block start + resolved
\* block duration, whatever the probed durations are; a block with explicit
\* duration 5 whose audio or video is probed longer yields clips of duration 5.
C4_ClipsInsideBlock ==
    \A i \in 1..Len(blockLog) :
        \A k \in 1..Len(blockLog[i].clips) :
            LET clip == blockLog[i].clips[k]
            IN /\ clip.start >= blockLog[i].start
               /\ clip.end <= blockLog[i].start + blockLog[i].duration
               /\ (doc.blocks[i].duration = Some(5)
                   /\ clip.kind \in {"video", "audio"}
                   /\ probeSource([kind |-> clip.kind, src |-> clip.src], None).duration > 5)
                  => clip.duration = 5

\* a block of explicit duration 5 holding a video probed at 20 and an audio
\* probed at 30 has been compiled
C4_Witness ==
    \E i \in 1..Len(blockLog) :
        /\ doc.blocks[i].duration = Some(5)
        /\ \E k \in 1..Len(blockLog[i].clips) :
              /\ blockLog[i].clips[k].src = "long.mp4"
              /\ blockLog[i].clips[k].duration = 5
        /\ \E k \in 1..Len(blockLog[i].clips) :
              /\ blockLog[i].clips[k].kind = "audio"
              /\ blockLog[i].clips[k].duration = 5

\* C5: every clip in the returned timeline has end = start + duration and
\* duration > 0, for every schema-valid document; a block or element whose
\* resolved duration is zero is dropped instead of being kept.
C5_ClipsPositive ==
    returned =>
        \A k \in 1..Len(returnedClips) :
            /\ returnedClips[k].end = returnedClips[k].start + returnedClips[k].duration
            /\ returnedClips[k].duration > 0

\* C6: the timeline's total duration is the largest `end` over the clips
\* retained, and 0 when no clip is retained; a block that left no clip adds
\* nothing to it.
C6_TotalDuration ==
    returned =>
        LET ends == { returnedClips[k].end : k \in 1..Len(returnedClips) }
            kept == { i \in 1..Len(blockLog) : blockLog[i].clips # <<>> }
            keptEnds == UNION { { blockLog[i].clips[k].end :
                                    k \in 1..Len(blockLog[i].clips) } : i \in kept }
        IN /\ Val(timeline).duration = IF ends = {} THEN 0 ELSE SetMax(ends)
           /\ Val(timeline).duration = IF keptEnds = {} THEN 0 ELSE SetMax(keptEnds)

\* a returned timeline of clips whose last pushed clip does not end last, next
\* to a block that left no clip and ends after every clip
C6_Witness ==
    /\ returned
    /\ pushedClips # <<>>
    /\ pushedClips[Len(pushedClips)].end < Val(timeline).duration
    /\ \E i \in 1..Len(blockLog) :
          /\ blockLog[i].clips = <<>>
          /\ blockLog[i].start + blockLog[i].duration > Val(timeline).duration

(***************************************************************************)
(* Properties of the FilterGraphBuilder                                    *)
(***************************************************************************)
\* the position of the first addInput call that passed the path of call i
firstCallOf(i) ==
    CHOOSE j \in 1..i :
        /\ inputLog[j].filePath = inputLog[i].filePath
        /\ \A k \in 1..(j - 1) : inputLog[k].filePath # inputLog[i].filePath

\* the number of distinct paths passed before call j
distinctBefore(j) == Cardinality({ inputLog[k].filePath : k \in 1..(j - 1) })

\* C7: after any sequence of addInput(path) calls on one builder, a path that
\* was registered before gets the index it received the first time and adds no
\* input, and a new path gets the next index: the indices handed out are
\* 0..n-1 in first-registration order and no path has two indices.
C7_InputDedup ==
    revision \in {"part_004", "part_005"} =>
        /\ \A i \in 1..Len(inputLog) :
              inputLog[i].ret = distinctBefore(firstCallOf(i))
        /\ Len(builder.inputs) =
              Cardinality({ inputLog[k].filePath : k \in 1..Len(inputLog) })

\* C8: across any sequence of getUniqueStreamLabel calls on one builder, with
\* any mix of prefixes and any number of calls per prefix, no two calls return
\* the same label.
C8_LabelsUnique ==
    \A i, j \in 1..Len(labelLog) :
        i # j => labelLog[i].ret # labelLog[j].ret

\* a render of the document handed in a second time has ended
secondRunEnded == run = 2 /\ pc \in {"built", "failed"}

\* C9: compiling the same document twice, with the same probe results, gives
\* the same input list, the same program text and the same output mappings in
\* both runs (and a run that fails, fails both times), whatever order the
\* probes of a block complete in and whatever the clock reads.
C9_Deterministic ==
    secondRunEnded =>
        /\ Val(firstRun).pc = pc
        /\ IsSome(Val(firstRun).built) = IsSome(built)
        /\ IsSome(built) =>
              /\ Val(Val(firstRun).built).inputs = Val(built).inputs
              /\ Val(Val(firstRun).built).complexFilter = Val(built).complexFilter
              /\ Val(Val(firstRun).built).maps = Val(built).maps

\* both runs built a program over two inputs and two mapped outputs, the
\* clips of some block were pushed in another order the second time, and the
\* clock read differently
C9_Witness ==
    /\ secondRunEnded
    /\ pc = "built"
    /\ Val(firstRun).pushed # blockLog
    /\ Val(firstRun).outputFilename # outputFilename
    /\ Len(Val(built).inputs) >= 2
    /\ Len(Val(built).maps) = 2
    /\ Val(built).complexFilter # <<>>

\* the pieces of a text between the occurrences of a separator
RECURSIVE split(_, _, _, _)
split(text, sep, piece, pieces) ==
    IF text = <<>> THEN Append(pieces, piece)
    ELSE IF Head(text) = sep THEN split(Tail(text), sep, <<>>, Append(pieces, piece))
    ELSE split(Tail(text), sep, piece \o <<Head(text)>>, pieces)

separator == IF revision = "part_004" THEN ";\n" ELSE "; "

\* the program text inside what build() returned
program ==
    LET text == Val(built).complexFilter
    IN IF revision = "part_004" \/ text = <<>> THEN text
       ELSE SubSeq(text, 2, Len(text) - 1)

\* C10: after any sequence of emit calls f1..fn on one builder, build() returns
\* as program exactly f1, f2, ..., fn joined by the fixed separator in call
\* order, no fragment lost, duplicated or reordered, and the empty program when
\* n = 0.
C10_ProgramIsJoinedEmits ==
    (revision \in {"part_004", "part_005"} /\ IsSome(built)) =>
        /\ filterLog = <<>> => Val(built).complexFilter = <<>>
        /\ filterLog # <<>> =>
              /\ split(program, separator, <<>>, <<>>) = filterLog
              /\ revision = "part_005" =>
                    /\ Head(Val(built).complexFilter) = "-filter_complex \""
                    /\ Val(built).complexFilter[Len(Val(built).complexFilter)] = "\""

\* three fragments, not all alike, were emitted and build() was called
C10_Witness ==
    /\ revision = "part_005"
    /\ IsSome(built)
    /\ Len(filterLog) = 3
    /\ filterLog[1] # filterLog[2]
    /\ filterLog[3] = filterLog[1]

\* the labels passed to the setFinal calls of one type, in call order
RECURSIVE finalsOf(_, _)
finalsOf(log, type) ==
    IF log = <<>> THEN <<>>
    ELSE (IF Head(log).type = type THEN <<Head(log).label>> ELSE <<>>)
         \o finalsOf(Tail(log), type)

\* the mapping argument build() is to return for the calls of one type
mappingOf(labels) ==
    IF labels = <<>> THEN <<>>
    ELSE << <<"-map \"">> \o labels[Len(labels)] \o <<"\"">> >>

\* C11: after any sequence of setFinalVideoOutput / setFinalAudioOutput calls,
\* build() returns mappings for exactly the finals that were set: the video
\* mapping (first) names the label of the last video call, the audio mapping
\* the label of the last audio call, a final never set gives no mapping, and
\* with neither set build() still returns, with no mapping.
C11_MapsAreLastFinals ==
    (revision = "part_005" /\ pc = "built" /\ run = 1 /\ timeline = None) =>
        /\ IsSome(built)
        /\ Val(built).maps = mappingOf(finalsOf(finalLog, "video"))
                              \o mappingOf(finalsOf(finalLog, "audio"))

\* the video final was set twice with different labels, the audio final never,
\* and build() was called
C11_Witness ==
    /\ revision = "part_005"
    /\ pc = "built"
    /\ timeline = None
    /\ Len(finalsOf(finalLog, "video")) = 2
    /\ finalsOf(finalLog, "video")[1] # finalsOf(finalLog, "video")[2]
    /\ finalsOf(finalLog, "audio") = <<>>
    /\ Len(Val(built).maps) = 1

\* the fragments an apply() call handed to the builder
emittedBy(call) ==
    SubSeq(call.after.filters, Len(call.before.filters) + 1, Len(call.after.filters))

\* the position of a token in a text (0 when it is not there)
indexOf(text, token) ==
    IF \E i \in 1..Len(text) : text[i] = token
    THEN CHOOSE i \in 1..Len(text) : text[i] = token /\ \A j \in 1..(i - 1) : text[j] # token
    ELSE 0

\* the number a decimal text stands for
RECURSIVE parseNat(_, _)
parseNat(text, acc) ==
    IF text = <<>> THEN acc
    ELSE parseNat(Tail(text),
                  10 * acc + (CHOOSE d \in 0..9 : Digit(d) = Head(text)))

parseNum(text) ==
    IF Head(text) = "-" THEN 0 - parseNat(Tail(text), 0) ELSE parseNat(text, 0)

\* the value of the st option of an emitted fade or afade fragment
startTimeIn(fragment) ==
    parseNum(SubSeq(fragment, indexOf(fragment, ":st=") + 1, indexOf(fragment, ":d=") - 1))

\* the apply() call had a type 'in' or 'out' and a positive duration
validFade(call) ==
    /\ call.kind = "fade"
    /\ IsSome(call.effect.params)
    /\ IsSome(Val(call.effect.params).type)
    /\ IsSome(Val(call.effect.params).duration)
    /\ Val(Val(call.effect.params).duration) > 0

\* C12: for a fade with valid parameters the start time written into the
\* fragment is 0 for type 'in' and max(0, clipDuration - effectDuration) for
\* type 'out', in the video fragment and in the audio fragment alike, and so
\* never negative (clip duration 1 with a fade-out of 2 gives 0).
C12_FadeStartTime ==
    \A i \in 1..Len(fxLog) :
        validFade(fxLog[i]) =>
            LET call == fxLog[i]
                type == Val(Val(call.effect.params).type)
                left == call.clip.duration - Val(Val(call.effect.params).duration)
                expected == IF type = "in" THEN 0 ELSE IF left >= 0 THEN left ELSE 0
            IN \A k \in 1..Len(emittedBy(call)) :
                  /\ startTimeIn(emittedBy(call)[k]) = expected
                  /\ startTimeIn(emittedBy(call)[k]) >= 0

\* a fade-out of 2 seconds was applied to the video and the audio stream of a
\* clip of 1 second
C12_Witness ==
    \E i \in 1..Len(fxLog) :
        /\ validFade(fxLog[i])
        /\ Val(Val(fxLog[i].effect.params).type) = "out"
        /\ fxLog[i].clip.duration = 1
        /\ Len(emittedBy(fxLog[i])) = 2
        /\ startTimeIn(emittedBy(fxLog[i])[1]) = 0
        /\ startTimeIn(emittedBy(fxLog[i])[2]) = 0

\* C13: a fade whose duration is not positive or whose type or duration (or
\* whole parameter object) is missing returns exactly the stream labels it
\* was given and leaves the builder as it was: nothing emitted, no label
\* allocated; the call returns (with a warning) instead of raising an error.
C13_InvalidFadeIsNoOp ==
    \A i \in 1..Len(fxLog) :
        (fxLog[i].kind = "fade" /\ ~validFade(fxLog[i])) =>
            /\ fxLog[i].ret = fxLog[i].inputStreams
            /\ fxLog[i].after = fxLog[i].before
            /\ fxLog[i].warned

\* after a fade that was applied, a fade of duration 0 was handed both streams
\* and gave them back
C13_Witness ==
    /\ Len(fxLog) = 2
    /\ validFade(fxLog[1])
    /\ fxLog[2].effect.params # None
    /\ Val(fxLog[2].effect.params).duration = Some(0)
    /\ IsSome(fxLog[2].inputStreams.video)
    /\ IsSome(fxLog[2].inputStreams.audio)
    /\ fxLog[2].ret = fxLog[2].inputStreams
    /\ fxLog[2].before.filters # <<>>

\* the number of half seconds a printed number of seconds stands for
parseSeconds(text) ==
    LET negative == Head(text) = "-"
        digits == IF negative THEN Tail(text) ELSE text
        dot == indexOf(digits, ".")
        whole == IF dot = 0 THEN digits ELSE SubSeq(digits, 1, dot - 1)
        halves == 2 * parseNat(whole, 0) + (IF dot = 0 THEN 0 ELSE 1)
    IN IF negative THEN 0 - halves ELSE halves

\* the value of the offset option of an emitted xfade fragment
offsetIn(fragment) ==
    LET from == indexOf(fragment, ":offset=") + 1
        rest == SubSeq(fragment, from, Len(fragment))
    IN parseSeconds(SubSeq(rest, 1, indexOf(rest, "[") - 1))

\* the call was a crossfade of positive duration
positiveCrossfade(call) == call.kind = "crossfade" /\ call.transition.duration > 0

\* the xfade fragments among the fragments a call emitted
xfadesOf(call) ==
    { k \in 1..Len(emittedBy(call)) : indexOf(emittedBy(call)[k], "xfade=transition=fade") # 0 }

channelsOf(call) ==
    LET emitted == emittedBy(call)
        x == { k \in 1..Len(emitted) : indexOf(emitted[k], "xfade=transition=fade") # 0 }
        a == { k \in 1..Len(emitted) : indexOf(emitted[k], "acrossfade=d=") # 0 }
    IN { [from |-> call.inputStreams.fromVideo, to |-> call.inputStreams.toVideo,
          ret |-> call.ret.video, emitted |-> Cardinality(x), channel |-> "video"],
         [from |-> call.inputStreams.fromAudio, to |-> call.inputStreams.toAudio,
          ret |-> call.ret.audio, emitted |-> Cardinality(a), channel |-> "audio"] }

\* C15: in a crossfade of positive duration, a channel that exactly one of
\* the two clips supplies gets that label back unchanged with nothing emitted
\* for it, a channel that neither supplies gets no stream, the call returns in
\* every case, and what the other channel holds makes no difference: the
\* fragments a call emits are exactly those of the channels both clips supply.
C15_CrossfadePassThrough ==
    \A i \in 1..Len(fxLog) :
        positiveCrossfade(fxLog[i]) =>
            /\ \A ch \in channelsOf(fxLog[i]) :
                  /\ (IsSome(ch.from) /\ ~IsSome(ch.to)) => (ch.ret = ch.from /\ ch.emitted = 0)
                  /\ (~IsSome(ch.from) /\ IsSome(ch.to)) => (ch.ret = ch.to /\ ch.emitted = 0)
                  /\ (~IsSome(ch.from) /\ ~IsSome(ch.to)) => (ch.ret = None /\ ch.emitted = 0)
                  /\ (IsSome(ch.from) /\ IsSome(ch.to)) => ch.emitted = 1
            /\ Len(emittedBy(fxLog[i])) =
                  Cardinality({ ch \in channelsOf(fxLog[i]) : ch.emitted = 1 })

\* one crossfade had video on both sides and audio only on the leaving clip,
\* the next had video only on the entering clip and no audio at all
C15_Witness ==
    /\ Len(fxLog) = 2
    /\ positiveCrossfade(fxLog[1]) /\ positiveCrossfade(fxLog[2])
    /\ IsSome(fxLog[1].inputStreams.fromVideo) /\ IsSome(fxLog[1].inputStreams.toVideo)
    /\ IsSome(fxLog[1].inputStreams.fromAudio) /\ ~IsSome(fxLog[1].inputStreams.toAudio)
    /\ fxLog[1].ret.audio = fxLog[1].inputStreams.fromAudio
    /\ Len(emittedBy(fxLog[1])) = 1
    /\ ~IsSome(fxLog[2].inputStreams.fromVideo) /\ IsSome(fxLog[2].inputStreams.toVideo)
    /\ ~IsSome(fxLog[2].inputStreams.fromAudio) /\ ~IsSome(fxLog[2].inputStreams.toAudio)
    /\ fxLog[2].ret = [video |-> fxLog[2].inputStreams.toVideo, audio |-> None]
    /\ emittedBy(fxLog[2]) = <<>>

\* the clips pushed by the loop over doc.blocks, once the overlay step is
\* done: all but the background clip, pushed first, and the overlay clip,
\* pushed last
blockDerived ==
    LET first == IF IsSome(doc.background) THEN 2 ELSE 1
        last == IF IsSome(doc.overlay) THEN Len(clips) - 1 ELSE Len(clips)
    IN { clips[i] : i \in first..last }

\* C16: in every document with a global overlay, the overlay clip's zIndex is
\* strictly greater than the zIndex of every clip made from a block, whatever
\* the number of blocks and of visuals per block.
C16_OverlayAboveBlocks ==
    (pc = "v3_overlay" /\ IsSome(doc.overlay)) =>
        \A c \in blockDerived : clips[Len(clips)].zIndex > c.zIndex

\* no clip of the timeline has a video or an audio stream label
noClipStreams ==
    \A i \in 1..Len(Val(timeline).clips) :
        LET id == Val(timeline).clips[i].id
        IN /\ ~truthy(P5_getClipStreamOutput(builder, id, "video").ret)
           /\ ~truthy(P5_getClipStreamOutput(builder, id, "audio").ret)

\* C17: when no clip of the timeline yields a video or an audio stream, render
\* returns the failure result for "no content to render" and never calls
\* runFFmpeg.
C17_NoContentFails ==
    (pc = "built" /\ noClipStreams) =>
        (Len(Val(built).maps) = 0 /\ result = Some([success |-> FALSE]))

\* a clip of the timeline whose kind sourceRegistry does not know
unknownSourceKind ==
    \E i \in 1..Len(Val(timeline).clips) : Val(timeline).clips[i].kind \notin sourceKinds

\* an effect of a clip of the timeline whose kind effectRegistry does not know
unknownEffectKind ==
    \E i \in 1..Len(Val(timeline).clips) :
        \E k \in 1..Len(Val(timeline).clips[i].effects) :
            Val(timeline).clips[i].effects[k].kind \notin effectKinds

C20_SuccessIffExitZero ==
    IsSome(ffmpeg) =>
        LET f == Val(ffmpeg)
        IN /\ f.settles <= 1
           /\ IsSome(f.promise) <=> f.settles = 1
           /\ f.resolves >= 1 => IsSome(f.promise)
           /\ (f.closed \/ f.errored \/ f.stage = "returned") => IsSome(f.promise)
           /\ (IsSome(f.promise) /\ Val(f.promise).success) => (f.closed /\ f.code = Some(0))
           /\ f.closed => (Val(f.promise).success <=> f.code = Some(0))

C20_Witness ==
    /\ IsSome(ffmpeg)
    /\ Val(ffmpeg).closed
    /\ Val(ffmpeg).code = Some(0)
    /\ Len(Val(ffmpeg).stderr) = 2
    /\ Val(Val(ffmpeg).promise).success

\* C30: the clips of a compiled timeline have distinct ids, also when some
\* blocks carry explicit ids and the others get block_<n>.
C30_ClipIdsDistinct ==
    pc = "returned" =>
        \A i, j \in 1..Len(Val(timeline).clips) :
            i # j => Val(timeline).clips[i].id # Val(timeline).clips[j].id

\* the number of the block whose turn of the loop pushed the clip
blockOf(c) ==
    CHOOSE k \in 1..Len(blockLog) :
        \E m \in 1..Len(blockLog[k].clips) : blockLog[k].clips[m] = c

C27_ClipsImmutable ==
    [][\A i \in 1..Len(clips) : \E j \in 1..Len(clips') : clips'[j] = clips[i]]_vars

\* the input index inside a label of the form [n:a]
inputIndexIn(label) == parseNat(SubSeq(label, 2, Len(label) - 1), 0)

\* C29: the input index that a file-backed clip's lowered source operation
\* reads is the index at which the clip's own path is registered, also for a
\* clip that shares its path with an earlier clip.
C29_OwnInputIndex ==
    \A k \in 1..Len(inputLog) :
        inputPathAt(revision, builder, inputIndexIn(inputLog[k].audio)) = inputLog[k].filePath

\* the last position of a token in a text (0 when it is not there)
lastIndexOf(text, token) ==
    IF \E i \in 1..Len(text) : text[i] = token
    THEN CHOOSE i \in 1..Len(text) : text[i] = token /\ \A j \in (i + 1)..Len(text) : text[j] # token
    ELSE 0

\* the label a fragment ends with, the stream the fragment produces
outputOf(fragment) == SubSeq(fragment, lastIndexOf(fragment, "["), Len(fragment))

\* the picture fragments of the render's program, in emission order
pictureFragments ==
    SelectSeq(builder.complexFilterParts, LAMBDA f : indexOf(f, "amix=inputs=") = 0)

isOverlay(fragment) == indexOf(fragment, "overlay=") # 0

overlayFragments == SelectSeq(pictureFragments, isOverlay)

\* the two streams an overlay fragment reads: [base][overlay]overlay=...
baseOf(fragment) == SubSeq(fragment, 1, indexOf(fragment, "]"))
overlaidOf(fragment) ==
    SubSeq(fragment, indexOf(fragment, "]") + 1, indexOf(fragment, "overlay=") - 1)

\* the fragment of the base canvas: the last picture fragment before the overlays
canvasFragment ==
    LET firstOverlay == { i \in 1..Len(pictureFragments) : isOverlay(pictureFragments[i]) }
    IN IF firstOverlay = {} THEN pictureFragments[Len(pictureFragments)]
       ELSE pictureFragments[(CHOOSE i \in firstOverlay : \A j \in firstOverlay : i <= j) - 1]

\* the clips of the timeline that lie above the base track and show a picture
overlaidClips ==
    { i \in 1..Len(returnedClips) :
        returnedClips[i].kind # "audio" /\ returnedClips[i].track > 0 }

\* the clip whose picture stream an overlay fragment puts on top
clipOverlaidBy(fragment) ==
    CHOOSE i \in overlaidClips :
        P5_getClipStreamOutput(builder, returnedClips[i].id, "video") = Some(overlaidOf(fragment))

RECURSIVE chainsOf(_)
chainsOf(fragments) ==
    IF fragments = <<>> THEN <<>>
    ELSE split(Head(fragments), ";", <<>>, <<>>) \o chainsOf(Tail(fragments))

labelEnd(token) == token \in {"]", ":v]", ":a]"}

\* the labels a text starts with, up to the first token outside a label
RECURSIVE leadingLabels(_)
leadingLabels(text) ==
    IF text = <<>> \/ Head(text) # "[" THEN <<>>
    ELSE LET e == CHOOSE i \in 1..Len(text) :
                      labelEnd(text[i]) /\ \A j \in 1..(i - 1) : ~labelEnd(text[j])
         IN <<SubSeq(text, 1, e)>> \o leadingLabels(SubSeq(text, e + 1, Len(text)))

\* [in1][in2]...operation=params[out1][out2]...: the streams a chain reads
readsOf(chain) == leadingLabels(chain)

\* the streams a chain produces
writesOf(chain) ==
    LET rest == SubSeq(chain, Len(concat(readsOf(chain))) + 1, Len(chain))
    IN IF indexOf(rest, "[") = 0 THEN <<>>
       ELSE leadingLabels(SubSeq(rest, indexOf(rest, "["), Len(rest)))

\* [n:v] and [n:a] name a stream of input n
inputStream(label) == label[Len(label)] \in {":v]", ":a]"}

range(f) == { f[i] : i \in DOMAIN f }

\* the labels produced by the first n chains
producedBy(chains, n) == UNION { range(writesOf(chains[j])) : j \in 1..n }

pictureClips ==
    { i \in 1..Len(returnedClips) : returnedClips[i].kind \in {"image", "colour"} }

\* the number of -i inputs registered once the first i clips went through the loop
registeredBy(i) ==
    Cardinality({ j \in 1..i : returnedClips[j].kind \in {"image", "audio"} })

isMix(fragment) == indexOf(fragment, "amix=inputs=") # 0

\* what the builder holds at each step of the graph pass
stepOrder ==
    LET frags == builder.complexFilterParts
        nSrc == Cardinality(pictureClips)
    IN /\ \A i \in pictureClips :
              LET k == Cardinality({ j \in pictureClips : j <= i })
              IN (k <= Len(frags) /\ ~(pc = "failed" /\ unknownSourceKind)
                    /\ returnedClips[i].kind = "image") =>
                     LET r == readsOf(frags[k])[1]
                         n == parseNum(SubSeq(r, 2, Len(r) - 1))
                     IN /\ n = registeredBy(i) - 1
                        /\ n >= 0
                        /\ builder.inputs[n + 1].filePath = returnedClips[i].src
       /\ pc \in {"sources", "effects"} => Len(frags) = nSrc
       /\ (pc = "failed" /\ ~unknownSourceKind) => Len(frags) = nSrc
       /\ pc = "base" =>
              /\ Len(frags) = nSrc + 1
              /\ ~isOverlay(frags[Len(frags)])
       /\ pc \in {"sources", "effects", "base", "overlays", "failed"} =>
              ~truthy(builder.finalVideoOutput)
       /\ pc \in {"sources", "effects", "base", "overlays", "video", "failed"} =>
              /\ ~truthy(builder.finalAudioOutput)
              /\ \A a \in 1..Len(frags) : ~isMix(frags[a])
       /\ \A a, o \in 1..Len(frags) : (isMix(frags[a]) /\ ~isMix(frags[o])) => o < a
       /\ \A o \in 1..Len(frags) : isOverlay(frags[o]) => o > nSrc + 1
       /\ IsSome(built) <=> pc = "built"
       /\ IsSome(built) => truthy(builder.finalVideoOutput)

channelLabel(b, i, type) == P5_getClipStreamOutput(b, returnedClips[i].id, type)

\* the streams the mix fragment of a program reads
mixedIn(b) ==
    UNION { range(readsOf(b.complexFilterParts[a])) :
              a \in { k \in 1..Len(b.complexFilterParts) : isMix(b.complexFilterParts[k]) } }

\* how far a channel has come: 0 not produced, 1 Sourced, 2 Composited / Mixed,
\* 3 Finalized
channelState(rev, b, i, type) ==
    IF rev # "part_005" \/ ~truthy(channelLabel(b, i, type)) THEN 0
    ELSE IF type = "video"
    THEN IF \A k \in 1..Len(b.complexFilterParts) :
                isOverlay(b.complexFilterParts[k]) =>
                    Some(overlaidOf(b.complexFilterParts[k])) # channelLabel(b, i, type)
         THEN 1
         ELSE IF truthy(b.finalVideoOutput) THEN 3 ELSE 2
    ELSE IF truthy(b.finalAudioOutput) THEN 3
         ELSE IF Val(channelLabel(b, i, type)) \in mixedIn(b) THEN 2 ELSE 1

Channels == {"video", "audio"}

\* every stream an overlay or a mix consumes is a channel of a clip, produced
\* by that clip's source lowering
consumedAreSourced ==
    LET frags == builder.complexFilterParts
        sourced == producedBy(chainsOf(frags), Cardinality(pictureClips))
    IN /\ \A k \in 1..Len(frags) : isOverlay(frags[k]) =>
              /\ overlaidOf(frags[k]) \in sourced
              /\ \E i \in pictureClips :
                    channelLabel(builder, i, "video") = Some(overlaidOf(frags[k]))
       /\ \A r \in mixedIn(builder) \cup
                    (IF truthy(builder.finalAudioOutput) /\ mixedIn(builder) = {}
                     THEN {Val(builder.finalAudioOutput)} ELSE {}) :
              \E i \in 1..Len(returnedClips) :
                  /\ returnedClips[i].kind = "audio"
                  /\ channelLabel(builder, i, "audio") = Some(r)
                  /\ inputStream(r)
                  /\ builder.inputs[parseNum(SubSeq(r, 2, Len(r) - 1)) + 1].filePath
                        = returnedClips[i].src
       /\ \A i \in 1..Len(returnedClips) : \A type \in Channels :
              channelState(revision, builder, i, type) = 3 =>
                  /\ pc \in {"video", "audio", "built"}
                  /\ type = "audio" =>
                        \/ Val(channelLabel(builder, i, type)) \in mixedIn(builder)
                        \/ channelLabel(builder, i, type) = builder.finalAudioOutput

RECURSIVE alonePushed(_, _, _)
alonePushed(blocks, n, cur) ==
    IF n > Len(blocks) THEN <<>>
    ELSE LET block == blocks[n]
             blockId == blockIdOf(block, n)
             blockStartTime == blockStartTimeOf(block, cur)
             blockDuration == calculatedBlockDuration(block)
             blockEndTime == blockStartTime + blockDuration
         IN [k \in 1..Len(block.visuals) |->
                visualClip(block, blockId, blockStartTime, blockDuration, k - 1)]
            \o (IF IsSome(block.audio)
                THEN <<audioClip(block, blockId, blockStartTime, blockDuration)>>
                ELSE <<>>)
            \o alonePushed(blocks, n + 1, nextCurrentTime(block, cur, blockEndTime))

\* the timeline a call that runs alone returns for a document
aloneTimeline(blocks) ==
    LET pushed == alonePushed(blocks, 1, 0)
    IN [clips |-> sortClips(<<>>, pushed), duration |-> maxEnd(pushed, 0)]

\* what build() returns in a call that runs alone on the running call's document
aloneBuilt ==
    LET cs == aloneTimeline(doc.blocks).clips
        sources == processSources(P5_new, cs, 1)
        base == baseCanvas(sources.b)
        overlaid == overlayClips(base.b, base.ret,
                                 sortClips(<<>>, videoClipsOf(base.b, cs)), 1)
        video == P5_setFinalVideoOutput(overlaid.b, Val(overlaid.ret)).b
        streams == audioStreamsToMix(video, cs)
        mixed == P5_mixAudio(video, streams)
        audio == IF Len(streams) > 0
                 THEN P5_setFinalAudioOutput(mixed.b, Val(mixed.ret)).b
                 ELSE video
    IN P5_build(audio)

\* C21: two render calls in flight do not affect each other: however their
\* steps interleave, the timeline each compiles and the inputs, program and
\* output mappings each builds are those of the same call running alone.
C21_RendersIsolated ==
    IsSome(suspended) =>
        /\ IsSome(timeline) => Val(timeline) = aloneTimeline(doc.blocks)
        /\ IsSome(Val(suspended).timeline) =>
              Val(Val(suspended).timeline) = aloneTimeline(Val(suspended).doc.blocks)
        /\ pc = "built" => Val(built) = aloneBuilt

\* the running call has built its graph from a document with inputs while the
\* other call, rendering another document, waits between two blocks of its
\* compile
C21_Witness ==
    /\ IsSome(suspended)
    /\ pc = "built"
    /\ Len(Val(built).inputs) >= 2
    /\ Len(Val(built).maps) = 2
    /\ Val(suspended).pc = "compile"
    /\ Val(suspended).blockCounter = 1
    /\ Val(suspended).clips # <<>>
    /\ Val(suspended).doc.blocks[1] # doc.blocks[1]

====
